---- MODULE Spec2Model ----
(***************************************************************************)
(* A model of the storage and lifecycle engine of gone, a one-time secret  *)
(* sharing service: the SQLite index, the filesystem blob store, the       *)
(* composite Store (Save / Consume / DeleteExpired / Reconcile) and the    *)
(* application Service (CreateSecret / Consume).                           *)
(*                                                                         *)
(* Time is counted in ticks, TicksPerSec ticks to the second. Tick 0 is    *)
(* Go's zero time.Time; the wall clock starts one second after it. The     *)
(* index stores created_at and expires_at as whole Unix seconds.           *)
(***************************************************************************)
EXTENDS Integers, Sequences, FiniteSets, TLC

VARIABLES
    clock,   \* the wall clock (app.Clock.Now, time.Since), in ticks
    index,   \* table secrets: id -> row, defined on the ids that have a row
    blobs,   \* blob directory: id -> file, defined on the ids that have a file
    sv,      \* per caller of Save / CreateSecret: its position and locals
    cn,      \* per caller of Consume: its position and locals
    jn,      \* the caller of DeleteExpired / Reconcile: position and locals
    minted,  \* ids NewID has returned or Save was called with
    ret,     \* what the call completed by the last step returned
    swept,   \* ids of the records ExpireBefore has returned as removed (history)
    call,    \* the last direct call of a function without state: inputs and result
    jan,     \* the Janitor: its fields, its loop goroutine, the callers of Start and Stop
    mgr      \* the metrics Manager: its fields, its tables, its loop, the caller of Stop

vars == <<clock, index, blobs, sv, cn, jn, minted, ret, swept, call, jan, mgr>>

-----------------------------------------------------------------------------
(* Bounds and configuration *)

MaxClock == 4
TicksPerSec == 2
MaxLen == 3
MaxCycles == 2
MaxStarts == 2

InlineMax == 1
MaxBytes == 3
MinTTL == 1
MaxTTL == 4

FreshnessGuard == TicksPerSec
ClockStart == TicksPerSec
Times == 0..MaxClock

IDs == {"a", "b"}
Savers == {"s1", "s2"}
Consumers == {"c1", "c2"}
ByteVals == {1, 2}

RECURSIVE SeqsUpTo(_, _)
SeqsUpTo(S, n) ==
    IF n = 0 THEN {<<>>}
    ELSE LET shorter == SeqsUpTo(S, n - 1)
         IN  shorter \cup {Append(q, x) : q \in {r \in shorter : Len(r) = n - 1}, x \in S}

Payloads == SeqsUpTo(ByteVals, MaxLen)
Metas == {[version |-> 1, nonce |-> "n1"], [version |-> 2, nonce |-> "n2"]}
NoMeta == [version |-> 0, nonce |-> ""]

-----------------------------------------------------------------------------
(* domain.SecretID: the text of an id, characters as their ASCII codes *)

HexDigitUpper(n) == IF n < 10 THEN 48 + n ELSE 55 + n
(* encoding/hex: "0123456789abcdef"[n] *)
HexDigit(n) == IF n < 10 THEN 48 + n ELSE 87 + n
(* hex.Encode *)
HexEncode(bs) ==
    [i \in 1..(2 * Len(bs)) |->
        IF i % 2 = 1 THEN HexDigit(bs[(i + 1) \div 2] \div 16)
                     ELSE HexDigit(bs[i \div 2] % 16)]
(* domain.NewID, b the 16 bytes rand.Read has filled *)
NewID(b) == HexEncode(b)

isValidIDUpTo(s) ==
    /\ Len(s) <= 32
    /\ \A i \in 1..Len(s) : (s[i] >= 48 /\ s[i] <= 57) \/ (s[i] >= 97 /\ s[i] <= 102)
(* domain.isValidID *)
isValidID(s) ==
    /\ ~(Len(s) # 32)
    /\ \A i \in 1..Len(s) : (s[i] >= 48 /\ s[i] <= 57) \/ (s[i] >= 97 /\ s[i] <= 102)

(* domain.ParseID *)
ParseID(s) ==
    IF ~isValidID(s) THEN [id |-> <<>>, err |-> "InvalidID"]
    ELSE [id |-> s, err |-> "nil"]
(* SecretID.Valid *)
Valid(id) == isValidID(id)

Repeat(ch, n) == [i \in 1..n |-> ch]
(* the random bytes behind the two ids of the model, and the ids' texts *)
IDBytes == [id \in IDs |-> Repeat(IF id = "a" THEN 170 ELSE 11, 16)]
IDText == [id \in IDs |-> NewID(IDBytes[id])]
(* the model's name of an id text; "x" is every id that is not one of the two *)
TokenOf(str) ==
    IF \E id \in IDs : IDText[id] = str THEN CHOOSE id \in IDs : IDText[id] = str ELSE "x"
(* texts that are no ids: empty, too short, too long, upper case, 'g' *)
BadTexts == {<<>>, Repeat(97, 31), Repeat(97, 33), Repeat(65, 32),
             [Repeat(48, 32) EXCEPT ![32] = 103]}

-----------------------------------------------------------------------------
(* time.Time as stored by the index *)

Unix(t) == t \div TicksPerSec
FromUnix(u) == u * TicksPerSec
IsZero(t) == t = 0

expiredStrict(now, expiresAt) ==
    IF IsZero(expiresAt) THEN FALSE ELSE now > expiresAt

(* store.expired *)
expired(now, expiresAt) ==
    IF IsZero(expiresAt) THEN FALSE ELSE now >= expiresAt

ValidateTTLPositiveBounds(ttl, minTTL, maxTTL) ==
    ~(ttl <= 0) /\ (minTTL <= 0 \/ ~(ttl < minTTL)) /\ (maxTTL <= 0 \/ ~(ttl > maxTTL))
ValidateTTLNoMin(ttl, minTTL, maxTTL) == ~(ttl <= 0) /\ ~(ttl > maxTTL)

(* domain.ValidateTTL *)
ValidateTTL(ttl, minTTL, maxTTL) ==
    ~(ttl <= 0) /\ ~(ttl < minTTL) /\ ~(ttl > maxTTL)

-----------------------------------------------------------------------------
(* Functions defined on part of IDs *)

Without(f, ids) == [i \in DOMAIN f \ ids |-> f[i]]
With(f, id, v) == [i \in DOMAIN f \cup {id} |-> IF i = id THEN v ELSE f[i]]
TakeAll(s, n) == s
Take(s, n) == SubSeq(s, 1, n)

NoCall == [fn |-> "none", ints |-> <<>>, text |-> <<>>, out |-> ""]

NoRet == [op |-> "none", who |-> "", id |-> "", err |-> "nil",
          meta |-> NoMeta, data |-> <<>>, size |-> 0, count |-> 0,
          listed |-> {}, ext |-> {}, t |-> 0, tried |-> {}, failed |-> {},
          text |-> <<>>]

Returns(op, who, id, err) == [NoRet EXCEPT !.op = op, !.who = who, !.id = id, !.err = err]

(* A caller makes one call: idle, the steps of the call, done. A caller that *)
(* is done keeps what the call was given and what it returned.              *)
(* what the caller of CreateSecret asked for *)
NoReq == [meta |-> NoMeta, size |-> 0, ttl |-> 0]
(* Save: var inline []byte, the nil slice; make([]byte, 0) is not nil *)
NilBytes == <<0 - 1>>
SvIdle == [pc |-> "idle", id |-> "", meta |-> NoMeta, data |-> <<>>, size |-> 0,
           now |-> 0, exp |-> 0, inline |-> NilBytes, external |-> FALSE,
           createdAt |-> 0, viaService |-> FALSE, err |-> "nil", req |-> NoReq]
CnIdle == [pc |-> "idle", id |-> "", now |-> 0, meta |-> NoMeta, size |-> 0,
           err |-> "nil", found |-> "none", rowExp |-> 0, after |-> "", read |-> 0]
(* janitor.Janitor as New returns it. ticker: j.ticker is set; tickC: a tick *)
(* waits in ticker.C; fired: ticks so far; loops: loop goroutines launched; *)
(* pc: where the loop is; count: runCycle's local; Cycles, Deleted,         *)
(* Processed: j.metrics; expires, recons: returned calls of the store;      *)
(* sink: what the collector passed to New has received; starts, stop: the   *)
(* callers of Start and Stop. For concurrent callers of Start: starter,     *)
(* where each caller is; lp, where the loop each caller launched is;        *)
(* tickers, the tickers created.                                            *)
Starters == {"g1", "g2"}
JanNew == [ticker |-> FALSE, tickC |-> FALSE, fired |-> 0, stopClosed |-> FALSE,
           doneClosed |-> FALSE, cancelled |-> FALSE, loops |-> 0, pc |-> "none",
           count |-> 0, Cycles |-> 0, Deleted |-> 0, Processed |-> 0,
           expires |-> 0, recons |-> 0, sink |-> [counter |-> 0, observes |-> <<>>],
           starts |-> 0, stop |-> "idle",
           starter |-> [g \in Starters |-> "idle"],
           lp |-> [g \in Starters |-> "none"], tickers |-> 0]

AfterDeleteExpiredAbort(j, n, err) ==
    IF j.pc = "expire"
    THEN [j EXCEPT !.pc = IF err = "nil" THEN "reconcile" ELSE "record",
                   !.count = n, !.expires = @ + 1]
    ELSE j
(* runCycle: count, err := j.store.DeleteExpired(ctx, now); the error is *)
(* logged. A call from elsewhere leaves the janitor as it is.             *)
AfterDeleteExpired(j, n, err) ==
    IF j.pc = "expire"
    THEN [j EXCEPT !.pc = "reconcile", !.count = n, !.expires = @ + 1]
    ELSE j
(* runCycle: rerr := j.store.Reconcile(ctx); the error is logged *)
AfterReconcile(j) ==
    IF j.pc = "reconcile" THEN [j EXCEPT !.pc = "record", !.recons = @ + 1] ELSE j

-----------------------------------------------------------------------------
(* metrics.Manager: counters and summaries batched in memory, flushed to   *)
(* the tables metrics_counters and metrics_summaries                       *)

MaxEvents == 3
EventsCap == 2

CounterNames == {"secrets_created_total", "secrets_consumed_total"}
SummaryNames == {"janitor_deleted_per_cycle"}
IncDeltas == {0, 1, 2}
ObserveValues == {0 - 1, 0, 2}

NoAgg == [count |-> 0, sum |-> 0, min |-> 0, max |-> 0]
NoCounters == [n \in CounterNames |-> 0]
NoSummaries == [n \in SummaryNames |-> NoAgg]
NoDeltas == [counters |-> NoCounters, summaries |-> NoSummaries]

(* apply, eventObserve; the upsert of metrics_summaries; Snapshot's layering: *)
(* an absent aggregate (count 0) takes the other's values                     *)
MergeAgg(cur, agg) ==
    IF cur.count = 0 THEN agg
    ELSE IF agg.count = 0 THEN cur
    ELSE [count |-> cur.count + agg.count, sum |-> cur.sum + agg.sum,
          min |-> IF agg.min < cur.min THEN agg.min ELSE cur.min,
          max |-> IF agg.max > cur.max THEN agg.max ELSE cur.max]

Apply(d, ev) ==
    IF ev.kind = "inc"
    THEN [d EXCEPT !.counters[ev.name] = @ + ev.v]
    ELSE [d EXCEPT !.summaries[ev.name] =
             MergeAgg(@, [count |-> 1, sum |-> ev.v, min |-> ev.v, max |-> ev.v])]

(* flush's transaction when it commits: value = value + excluded.value, ... *)
Upsert(db, d) ==
    [counters |-> [n \in CounterNames |-> db.counters[n] + d.counters[n]],
     summaries |-> [n \in SummaryNames |-> MergeAgg(db.summaries[n], d.summaries[n])]]

MgrNew == [started |-> FALSE, pc |-> "none", events |-> <<>>, mem |-> NoDeltas,
           db |-> NoDeltas, stopClosed |-> FALSE, doneClosed |-> FALSE,
           cancelled |-> FALSE, stop |-> "idle", sent |-> 0,
           applied |-> NoDeltas, flushFailed |-> FALSE, accepted |-> NoCounters]

FlushNone(m, fail) == m
(* flush: nothing to do when both maps are empty; otherwise the maps are   *)
(* copied and reset, then the copies are written in one transaction. When  *)
(* BeginTx, an Exec or Commit fails the tables stay as they were.          *)
Flush(m, fail) ==
    IF m.mem = NoDeltas THEN m
    ELSE [m EXCEPT !.mem = NoDeltas,
                   !.db = IF fail THEN @ ELSE Upsert(@, m.mem),
                   !.flushFailed = @ \/ fail]

(* apply, with the history of what was applied *)
MgrApply(m, ev) ==
    [m EXCEPT !.mem = Apply(@, ev), !.applied = Apply(@, ev)]

JnIdle == [pc |-> "idle", t |-> 0, recs |-> {}, blobIDs |-> {}, extIDs |-> {},
           pending |-> {}, listedAt |-> 0, tried |-> {}, failed |-> {}, snap |-> <<>>]

-----------------------------------------------------------------------------
(* sqlite.Index: one table, each statement or transaction one atomic step *)

Row(meta, inline, external, size, createdAt, expiresAt) ==
    [version |-> meta.version, nonce_b64u |-> meta.nonce,
     inlineNull |-> (inline = NilBytes),
     inline |-> IF inline = NilBytes THEN <<>> ELSE inline,
     external |-> IF external THEN 1 ELSE 0, size |-> size,
     created_at |-> Unix(createdAt), expires_at |-> Unix(expiresAt)]

InsertFailsNever(ix, id) == FALSE
(* INSERT INTO secrets: id is the primary key *)
InsertFails(ix, id) == id \in DOMAIN ix
IndexInsert(ix, id, row) == With(ix, id, row)

IndexConsumeKeep(ix, id) == ix
(* DELETE FROM secrets WHERE id=? RETURNING ... *)
IndexConsumeDelete(ix, id) == Without(ix, {id})
IndexResult(row) ==
    [Meta |-> [version |-> row.version, nonce |-> row.nonce_b64u],
     Inline |-> row.inline, External |-> (row.external = 1), Size |-> row.size,
     ExpiresAt |-> FromUnix(row.expires_at)]

ExpiredRecord(ix, id) == [ID |-> id, External |-> (ix[id].external = 1)]
ExpireSelectExternal(ix, t) ==
    {ExpiredRecord(ix, id) :
        id \in {i \in DOMAIN ix : ix[i].expires_at < Unix(t) /\ ix[i].external = 1}}
(* SELECT id, external FROM secrets WHERE expires_at < ? *)
ExpireSelect(ix, t) ==
    {ExpiredRecord(ix, id) : id \in {i \in DOMAIN ix : ix[i].expires_at < Unix(t)}}
ExpireDeleteNone(ix, t) == ix
ExpireDeleteAll(ix, t) == Without(ix, DOMAIN ix)
ExpireDeleteUpTo(ix, t) == Without(ix, {id \in DOMAIN ix : ix[id].expires_at <= Unix(t)})
(* DELETE FROM secrets WHERE expires_at < ? *)
ExpireDelete(ix, t) == Without(ix, {id \in DOMAIN ix : ix[id].expires_at < Unix(t)})

(* SELECT id FROM secrets WHERE external=1 *)
ListExternalIDs(ix) == {id \in DOMAIN ix : ix[id].external = 1}

-----------------------------------------------------------------------------
(* filesystem.BlobStore *)

BlobFileAll(data, size, now) == [data |-> data, mtime |-> now]
(* Write: O_EXCL create, io.CopyN of exactly size bytes, Sync *)
BlobFile(data, size, now) == [data |-> Take(data, size), mtime |-> now]

BlobListAll(bl, now) == DOMAIN bl
BlobListFresh(bl, now) == {id \in DOMAIN bl : now - bl[id].mtime < FreshnessGuard}
(* List: every *.blob entry except those modified less than a second ago *)
BlobList(bl, now) == {id \in DOMAIN bl : ~(now - bl[id].mtime < FreshnessGuard)}

BlobDeleteKeep(bl, id) == bl
(* os.Remove of the blob's path *)
BlobDelete(bl, id) == Without(bl, {id})

-----------------------------------------------------------------------------
(* Store.Save: the size check, the clock read and the inline read or the    *)
(* blob write; the index insert is the next step of the same call.          *)

SaveInlineBelow(size) == size < InlineMax
SaveInline(size) == size <= InlineMax

SaveOp(via) == IF via THEN "CreateSecret" ELSE "Save"

SaveArgs(s, id, meta, data, size, exp, via) ==
    [sv[s] EXCEPT !.id = id, !.meta = meta, !.data = data, !.size = size,
                  !.exp = exp, !.viaService = via]

(* what a caller keeps of a finished call: the arguments that identify the *)
(* secret, the error, and for CreateSecret the expiry it returned          *)
SaveDone(a, err) ==
    [SvIdle EXCEPT !.pc = "done", !.err = err, !.id = a.id, !.meta = a.meta,
                   !.data = a.data, !.external = a.external,
                   !.viaService = a.viaService,
                   !.now = a.now, !.exp = IF a.viaService THEN a.exp ELSE 0,
                   !.createdAt = IF err # "nil" /\ a.external THEN a.createdAt ELSE 0]

(* what Save, or CreateSecret around it, returns: CreateSecret returns the *)
(* id, the expiry it computed and the error of Store.Save                  *)
SaveReturns(s, a, err) ==
    [Returns(SaveOp(a.viaService), s, a.id, err) EXCEPT
        !.t = IF a.viaService THEN a.exp ELSE 0]

SaveFails(s, args) ==
    /\ sv' = [sv EXCEPT ![s] = SaveDone(args, "error")]
    /\ ret' = SaveReturns(s, args, "error")
    /\ UNCHANGED blobs

SaveBody(s, args) ==
    IF args.size < 0 THEN SaveFails(s, args)
    ELSE IF SaveInline(args.size)
    THEN IF Len(args.data) < args.size THEN SaveFails(s, args)
         ELSE /\ sv' = [sv EXCEPT ![s] =
                         [args EXCEPT !.pc = "insert", !.data = Take(args.data, args.size),
                                      !.inline = Take(args.data, args.size),
                                      !.external = FALSE, !.createdAt = clock]]
              /\ ret' = NoRet
              /\ UNCHANGED blobs
    ELSE IF args.id \in DOMAIN blobs \/ Len(args.data) < args.size THEN SaveFails(s, args)
         ELSE /\ blobs' = With(blobs, args.id, BlobFile(args.data, args.size, clock))
              /\ sv' = [sv EXCEPT ![s] =
                         [args EXCEPT !.pc = "insert", !.data = Take(args.data, args.size),
                                      !.external = TRUE, !.createdAt = clock]]
              /\ ret' = NoRet

(* a direct call of Store.Save *)
StoreSave(s, id, meta, data, size, exp) ==
    /\ sv[s].pc = "idle"
    /\ minted' = minted \cup {id}
    /\ SaveBody(s, SaveArgs(s, id, meta, data, size, exp, FALSE))
    /\ UNCHANGED <<clock, index, cn, jn, swept, call, jan, mgr>>

ServiceValidateNone(ttl, size, minTTL, maxTTL, maxBytes) == "nil"

ServiceValidateBelow(ttl, size, minTTL, maxTTL, maxBytes) ==
    IF ~ValidateTTL(ttl, minTTL, maxTTL) THEN "TTLInvalid"
    ELSE IF size <= 0 \/ size >= maxBytes THEN "SizeExceeded"
    ELSE "nil"

(* Service.CreateSecret, the two validations it begins with *)
ServiceValidate(ttl, size, minTTL, maxTTL, maxBytes) ==
    IF ~ValidateTTL(ttl, minTTL, maxTTL) THEN "TTLInvalid"
    ELSE IF size <= 0 \/ size > maxBytes THEN "SizeExceeded"
    ELSE "nil"

ExpiresAtNow(now, ttl) == now
(* Service.CreateSecret: expiresAt = now.Add(ttl) *)
ExpiresAt(now, ttl) == now + ttl

(* Service.CreateSecret up to its call of Store.Save *)
CreateSecret(s, data, size, meta, ttl) ==
    /\ sv[s].pc = "idle"
    /\ IF ServiceValidate(ttl, size, MinTTL, MaxTTL, MaxBytes) # "nil"
       THEN LET err == ServiceValidate(ttl, size, MinTTL, MaxTTL, MaxBytes)
            IN  /\ ret' = Returns("CreateSecret", s, "", err)
                /\ sv' = [sv EXCEPT ![s] = [SvIdle EXCEPT !.pc = "done",
                                                          !.viaService = TRUE, !.err = err]]
                /\ UNCHANGED minted
       ELSE \E id \in IDs \ minted :
            /\ minted' = minted \cup {id}
            /\ sv' = [sv EXCEPT ![s] =
                       [SaveArgs(s, id, meta, data, size, ExpiresAt(clock, ttl), TRUE) EXCEPT
                           !.pc = "save", !.now = clock,
                           !.req = [meta |-> meta, size |-> size, ttl |-> ttl]]]
            /\ ret' = NoRet
    /\ UNCHANGED <<clock, index, blobs, cn, jn, swept, call, jan, mgr>>

(* Store.Save as called by Service.CreateSecret *)
ServiceSave(s) ==
    /\ sv[s].pc = "save"
    /\ SaveBody(s, sv[s])
    /\ UNCHANGED <<clock, index, cn, jn, minted, swept, call, jan, mgr>>

(* Store.Save, last line: Index.Insert; fail is a failure of the database *)
SaveInsert(s, fail) ==
    /\ sv[s].pc = "insert"
    /\ LET a == sv[s]
           err == IF fail \/ InsertFails(index, a.id) THEN "error" ELSE "nil"
       IN  /\ index' = IF err = "nil"
                       THEN IndexInsert(index, a.id,
                               Row(a.meta, a.inline, a.external, a.size, a.createdAt, a.exp))
                       ELSE index
           /\ ret' = [SaveReturns(s, a, err) EXCEPT !.size = a.size]
           /\ sv' = [sv EXCEPT ![s] = SaveDone(a, err)]
    /\ UNCHANGED <<clock, blobs, cn, jn, minted, swept, call, jan, mgr>>

-----------------------------------------------------------------------------
(* Store.Consume: the clock read, Index.Consume (one DELETE ... RETURNING), *)
(* the expiry check, then for an external record BlobStore.Consume (open).  *)
(* The reader of an external record removes the file when it is closed.     *)

(* the caller whose successful Save of id returned in this very state, if any *)
JustSaved(id) ==
    IF ret.op \in {"Save", "CreateSecret"} /\ ret.err = "nil" /\ ret.id = id
    THEN ret.who ELSE ""

ConsumeCall(c, id) ==
    /\ cn[c].pc = "idle"
    /\ cn' = [cn EXCEPT ![c] = [CnIdle EXCEPT !.pc = "index", !.id = id, !.now = clock,
                                              !.after = JustSaved(id)]]
    /\ ret' = NoRet
    /\ UNCHANGED <<clock, index, blobs, sv, jn, minted, swept, call, jan, mgr>>

(* Service.ConsumeOnce: ParseID, then the store *)
ServiceConsume(c, str) ==
    /\ cn[c].pc = "idle"
    /\ IF ParseID(str).err = "nil"
       THEN ConsumeCall(c, TokenOf(str))
       ELSE /\ cn' = [cn EXCEPT ![c] = [CnIdle EXCEPT !.pc = "done", !.err = "InvalidID"]]
            /\ ret' = Returns("Consume", c, "", "InvalidID")
            /\ UNCHANGED <<clock, index, blobs, sv, jn, minted, swept, call, jan, mgr>>

ConsumeReturns(c, err, meta, data, size) ==
    [Returns("Consume", c, cn[c].id, err) EXCEPT !.meta = meta, !.data = data, !.size = size]

(* buildConsumeResult, inline record *)
InlineResult(c, res) == ConsumeReturns(c, "nil", res.Meta, res.Inline, Len(res.Inline))
(* buildConsumeResult, external record, the file opened *)
ExternalResult(c, meta, size, file) == ConsumeReturns(c, "nil", meta, file.data, size)

ConsumeIndex(c) ==
    /\ cn[c].pc = "index"
    /\ LET id == cn[c].id
       IN  IF id \notin DOMAIN index
           THEN /\ cn' = [cn EXCEPT ![c].pc = "done", ![c].err = "NotFound",
                                    ![c].found = "absent", ![c].now = 0]
                /\ ret' = ConsumeReturns(c, "NotFound", NoMeta, <<>>, 0)
                /\ UNCHANGED index
           ELSE LET res == IndexResult(index[id])
                IN  /\ index' = IndexConsumeDelete(index, id)
                    /\ IF expired(cn[c].now, res.ExpiresAt)
                       THEN /\ cn' = [cn EXCEPT ![c].pc = "done", ![c].err = "NotFound",
                                                ![c].found = "expired",
                                                ![c].rowExp = res.ExpiresAt]
                            /\ ret' = ConsumeReturns(c, "NotFound", NoMeta, <<>>, 0)
                       ELSE IF res.External
                       THEN /\ cn' = [cn EXCEPT ![c].pc = "open", ![c].found = "row",
                                                ![c].meta = res.Meta, ![c].size = res.Size,
                                                ![c].now = 0]
                            /\ ret' = NoRet
                       ELSE /\ cn' = [cn EXCEPT ![c].pc = "done", ![c].found = "row",
                                                ![c].now = 0]
                            /\ ret' = InlineResult(c, res)
    /\ UNCHANGED <<clock, blobs, sv, jn, minted, swept, call, jan, mgr>>

ConsumeOpen(c) ==
    /\ cn[c].pc = "open"
    /\ IF cn[c].id \notin DOMAIN blobs
       THEN /\ cn' = [cn EXCEPT ![c].pc = "done", ![c].err = "error",
                                ![c].meta = NoMeta, ![c].size = 0]
            /\ ret' = ConsumeReturns(c, "error", cn[c].meta, <<>>, 0)
       ELSE /\ cn' = [cn EXCEPT ![c].pc = "reading", ![c].meta = NoMeta, ![c].size = 0]
            /\ ret' = ExternalResult(c, cn[c].meta, cn[c].size, blobs[cn[c].id])
    /\ UNCHANGED <<clock, index, blobs, sv, jn, minted, swept, call, jan, mgr>>

(* deletingReadCloser.Close *)
ReaderClose(c) ==
    /\ cn[c].pc = "reading"
    /\ blobs' = BlobDelete(blobs, cn[c].id)
    /\ cn' = [cn EXCEPT ![c].pc = "done"]
    /\ ret' = Returns("Close", c, cn[c].id,
                       IF cn[c].id \in DOMAIN blobs THEN "nil" ELSE "error")
    /\ UNCHANGED <<clock, index, sv, jn, minted, swept, call, jan, mgr>>

-----------------------------------------------------------------------------
(* BlobStore called directly: Write, Consume and its reader, Delete.        *)
(* str is the id as the caller gives it, any text.                          *)

ContainsDotDot(str) == \E i \in 1..(Len(str) - 1) : str[i] = 46 /\ str[i + 1] = 46

validateIDUpTo(str) == isValidIDUpTo(str) /\ ~ContainsDotDot(str)
(* validateID: domain.ParseID, then the ".." test *)
validateID(str) == ParseID(str).err = "nil" /\ ~ContainsDotDot(str)

BlobReturns(op, who, str, err) ==
    [Returns(op, who, IF validateID(str) THEN TokenOf(str) ELSE "", err) EXCEPT !.text = str]

(* Write after f.Sync(): a failed Sync returns its error, the file stays *)
WriteSync(bl, id, syncFails) == bl

(* BlobStore.Write; syncFails: f.Sync() returns an error *)
Write(str, data, size, syncFails) ==
    /\ LET id == TokenOf(str)
           created == With(blobs, id, BlobFile(data, size, clock))
           partial == With(blobs, id, BlobFile(data, Len(data), clock))
       IN  IF ~validateID(str) \/ id \in DOMAIN blobs
           THEN /\ blobs' = blobs
                /\ ret' = BlobReturns("Blob.Write", "", str, "error")
           ELSE IF Len(data) < size
           THEN /\ blobs' = BlobDelete(partial, id)
                /\ ret' = BlobReturns("Blob.Write", "", str, "error")
           ELSE /\ blobs' = WriteSync(created, id, syncFails)
                /\ ret' = BlobReturns("Blob.Write", "", str, IF syncFails THEN "error" ELSE "nil")
    /\ UNCHANGED <<clock, index, sv, cn, jn, minted, swept, call, jan, mgr>>

(* BlobStore.Consume: os.Open, the reader deletes the path when closed; *)
(* c holds the reader of its latest call                                *)
Consume(c, str) ==
    /\ cn[c].pc \in {"idle", "done"}
    /\ IF ~validateID(str) \/ TokenOf(str) \notin DOMAIN blobs
       THEN /\ cn' = [cn EXCEPT ![c] = [CnIdle EXCEPT !.pc = "done", !.err = "error"]]
            /\ ret' = BlobReturns("Blob.Consume", c, str, "error")
       ELSE /\ cn' = [cn EXCEPT ![c] = [CnIdle EXCEPT !.pc = "reading", !.id = TokenOf(str),
                                           !.size = Len(blobs[TokenOf(str)].data)]]
            /\ ret' = BlobReturns("Blob.Consume", c, str, "nil")
    /\ UNCHANGED <<clock, index, blobs, sv, jn, minted, swept, call, jan, mgr>>

(* a Read of one byte through the reader *)
ReaderRead(c) ==
    /\ cn[c].pc = "reading" /\ cn[c].read < cn[c].size
    /\ cn' = [cn EXCEPT ![c].read = @ + 1]
    /\ ret' = Returns("Read", c, cn[c].id, "nil")
    /\ UNCHANGED <<clock, index, blobs, sv, jn, minted, swept, call, jan, mgr>>

(* BlobStore.Delete *)
Delete(str) ==
    /\ IF str = <<>>
       THEN /\ blobs' = blobs
            /\ ret' = BlobReturns("Blob.Delete", "", str, "nil")
       ELSE IF ~validateID(str) \/ TokenOf(str) \notin DOMAIN blobs
       THEN /\ blobs' = blobs
            /\ ret' = BlobReturns("Blob.Delete", "", str, "error")
       ELSE /\ blobs' = BlobDelete(blobs, TokenOf(str))
            /\ ret' = BlobReturns("Blob.Delete", "", str, "nil")
    /\ UNCHANGED <<clock, index, sv, cn, jn, minted, swept, call, jan, mgr>>

-----------------------------------------------------------------------------
(* Store.DeleteExpired: Index.ExpireBefore in one transaction, then one     *)
(* best-effort BlobStore.Delete per external record, then the count.        *)

DeleteExpired(t) ==
    /\ jn.pc = "idle"
    /\ LET recs == ExpireSelect(index, t)
       IN  /\ index' = ExpireDelete(index, t)
           /\ swept' = swept \cup {r.ID : r \in recs}
           /\ jn' = [JnIdle EXCEPT !.pc = "expDel", !.t = t, !.recs = recs,
                                   !.pending = {r.ID : r \in {x \in recs : x.External}}]
    /\ ret' = NoRet
    /\ UNCHANGED <<clock, blobs, sv, cn, minted, call, jan, mgr>>

(* fail: os.Remove fails; the error is dropped and the loop goes on *)
ExpiredBlobDelete(id, fail) ==
    /\ jn.pc = "expDel"
    /\ id \in jn.pending
    /\ blobs' = IF fail THEN blobs ELSE BlobDelete(blobs, id)
    /\ jn' = [jn EXCEPT !.pending = jn.pending \ {id},
                        !.tried = jn.tried \cup {id},
                        !.failed = IF fail \/ id \notin DOMAIN blobs
                                   THEN jn.failed \cup {id} ELSE jn.failed]
    /\ ret' = NoRet
    /\ UNCHANGED <<clock, index, sv, cn, minted, swept, call, jan, mgr>>

DeleteExpiredReturn ==
    /\ jn.pc = "expDel"
    /\ jn.pending = {}
    /\ ret' = [Returns("DeleteExpired", "j", "", "nil") EXCEPT
                  !.count = Cardinality(jn.recs), !.t = jn.t,
                  !.tried = jn.tried, !.failed = jn.failed]
    /\ jn' = JnIdle
    /\ jan' = AfterDeleteExpired(jan, Cardinality(jn.recs), "nil")
    /\ UNCHANGED <<clock, index, blobs, sv, cn, minted, swept, call, mgr>>

(* Store.Reconcile: BlobStore.List, Index.ListExternalIDs, then one         *)
(* best-effort BlobStore.Delete per listed blob that has no external row.   *)

ReconcileList ==
    /\ jn.pc = "idle"
    /\ jn' = [JnIdle EXCEPT !.pc = "recIndex", !.blobIDs = BlobList(blobs, clock),
                            !.listedAt = clock]
    /\ ret' = NoRet
    /\ UNCHANGED <<clock, index, blobs, sv, cn, minted, swept, call, jan, mgr>>

OrphansNone(blobIDs, extIDs) == {}
Orphans(blobIDs, extIDs) == blobIDs \ extIDs

ReconcileIndex ==
    /\ jn.pc = "recIndex"
    /\ LET extIDs == ListExternalIDs(index)
       IN  jn' = [jn EXCEPT !.pc = "recDel", !.extIDs = extIDs,
                            !.pending = Orphans(jn.blobIDs, extIDs)]
    /\ ret' = NoRet
    /\ UNCHANGED <<clock, index, blobs, sv, cn, minted, swept, call, jan, mgr>>

OrphanDelete(id) ==
    /\ jn.pc = "recDel"
    /\ id \in jn.pending
    /\ blobs' = BlobDelete(blobs, id)
    /\ jn' = [jn EXCEPT !.pending = jn.pending \ {id}]
    /\ ret' = NoRet
    /\ UNCHANGED <<clock, index, sv, cn, minted, swept, call, jan, mgr>>

ReconcileReturn ==
    /\ jn.pc = "recDel"
    /\ jn.pending = {}
    /\ ret' = [Returns("Reconcile", "j", "", "nil") EXCEPT
                  !.listed = jn.blobIDs, !.ext = jn.extIDs, !.t = jn.listedAt]
    /\ jn' = JnIdle
    /\ jan' = AfterReconcile(jan)
    /\ UNCHANGED <<clock, index, blobs, sv, cn, minted, swept, call, mgr>>

-----------------------------------------------------------------------------
(* janitor.Janitor: Start, Stop, the loop goroutine and runCycle. The       *)
(* context given to Start is cancelled by Cancel; the ticker fires at most  *)
(* MaxCycles times.                                                         *)

AlreadyStartedNever(j) == FALSE
(* Start: j.ticker != nil *)
AlreadyStarted(j) == j.ticker

(* Janitor.Start *)
Start ==
    /\ jan.starts < MaxStarts
    /\ jan' = IF AlreadyStarted(jan)
              THEN [jan EXCEPT !.starts = @ + 1]
              ELSE [jan EXCEPT !.starts = @ + 1, !.ticker = TRUE, !.loops = @ + 1,
                               !.pc = "select"]
    /\ ret' = NoRet
    /\ UNCHANGED <<clock, index, blobs, sv, cn, jn, minted, swept, call, mgr>>

(* Janitor.Stop: j.once.Do(close(j.stopCh)), then the receive from doneCh *)
StopSignal ==
    /\ jan.stop = "idle"
    /\ jan' = [jan EXCEPT !.stop = "waiting", !.stopClosed = TRUE]
    /\ ret' = NoRet
    /\ UNCHANGED <<clock, index, blobs, sv, cn, jn, minted, swept, call, mgr>>

DoneReceivableAlways(j) == TRUE
(* <-j.doneCh goes on once the channel is closed *)
DoneReceivable(j) == j.doneClosed

StopReturn ==
    /\ jan.stop = "waiting"
    /\ DoneReceivable(jan)
    /\ jan' = [jan EXCEPT !.stop = "returned"]
    /\ ret' = Returns("Stop", "j", "", "nil")
    /\ UNCHANGED <<clock, index, blobs, sv, cn, jn, minted, swept, call, mgr>>

(* cancel() of the context given to Start *)
Cancel ==
    /\ ~jan.cancelled
    /\ jan' = [jan EXCEPT !.cancelled = TRUE]
    /\ ret' = NoRet
    /\ UNCHANGED <<clock, index, blobs, sv, cn, jn, minted, swept, call, mgr>>

(* the ticker sends a tick; ticker.C holds one, a tick that finds it full *)
(* is dropped; the loop's deferred ticker.Stop ends the ticks             *)
TickerFire ==
    /\ jan.ticker /\ jan.pc # "exited" /\ ~jan.tickC
    /\ jan.fired < MaxCycles
    /\ jan' = [jan EXCEPT !.tickC = TRUE, !.fired = @ + 1]
    /\ ret' = NoRet
    /\ UNCHANGED <<clock, index, blobs, sv, cn, jn, minted, swept, call, mgr>>

LoopExitsNever(j) == FALSE
(* loop: case <-ctx.Done(), case <-j.stopCh *)
LoopExits(j) == j.cancelled \/ j.stopClosed

(* loop returns: the deferred ticker.Stop and close(j.doneCh) *)
LoopExit ==
    /\ jan.pc = "select"
    /\ LoopExits(jan)
    /\ jan' = [jan EXCEPT !.pc = "exited", !.doneClosed = TRUE]
    /\ ret' = NoRet
    /\ UNCHANGED <<clock, index, blobs, sv, cn, jn, minted, swept, call, mgr>>

(* loop: case <-j.ticker.C: j.runCycle(ctx) *)
LoopCycle ==
    /\ jan.pc = "select"
    /\ jan.tickC
    /\ jan' = [jan EXCEPT !.pc = "expire", !.tickC = FALSE]
    /\ ret' = NoRet
    /\ UNCHANGED <<clock, index, blobs, sv, cn, jn, minted, swept, call, mgr>>

(* runCycle: j.store.DeleteExpired(ctx, now) *)
CycleExpire ==
    /\ jan.pc = "expire"
    /\ DeleteExpired(clock)

(* Store.DeleteExpired when the index fails: return 0, err *)
DeleteExpiredFails ==
    /\ jn.pc = "idle"
    /\ ret' = Returns("DeleteExpired", "j", "", "error")
    /\ jan' = AfterDeleteExpired(jan, 0, "error")
    /\ UNCHANGED <<clock, index, blobs, sv, cn, jn, minted, swept, call, mgr>>

(* runCycle: j.store.Reconcile(ctx) *)
CycleReconcile ==
    /\ jan.pc = "reconcile"
    /\ ReconcileList

(* Store.Reconcile when BlobStore.List fails: return err *)
ReconcileFails ==
    /\ jn.pc = "idle"
    /\ ret' = Returns("Reconcile", "j", "", "error")
    /\ jan' = AfterReconcile(jan)
    /\ UNCHANGED <<clock, index, blobs, sv, cn, jn, minted, swept, call, mgr>>

(* Metrics.addProcessed, addDeleted *)
AddCount(total, n) == IF n <= 0 THEN total ELSE total + n

(* runCycle: addProcessed(count), addDeleted(count), recordCycle; nothing *)
(* is sent to the collector New was given                                 *)
CycleRecord ==
    /\ jan.pc = "record"
    /\ jan' = [jan EXCEPT !.pc = "select", !.Processed = AddCount(@, jan.count),
                          !.Deleted = AddCount(@, jan.count), !.Cycles = @ + 1,
                          !.count = 0]
    /\ ret' = NoRet
    /\ UNCHANGED <<clock, index, blobs, sv, cn, jn, minted, swept, call, mgr>>

-----------------------------------------------------------------------------
Tick ==
    /\ clock < MaxClock
    /\ clock' = clock + 1
    /\ ret' = NoRet
    /\ UNCHANGED <<index, blobs, sv, cn, jn, minted, swept, call, jan, mgr>>

Init ==
    /\ clock = ClockStart
    /\ index = <<>>
    /\ blobs = <<>>
    /\ sv = [s \in Savers |-> SvIdle]
    /\ cn = [c \in Consumers |-> CnIdle]
    /\ jn = JnIdle
    /\ minted = {}
    /\ ret = NoRet
    /\ swept = {}
    /\ call = NoCall
    /\ jan = JanNew
    /\ mgr = MgrNew

-----------------------------------------------------------------------------
(* Spec: callers of Save, Consume and the janitor's calls run concurrently, *)
(* every step of every call interleaved with every other.                   *)

RacePayloads == {<<1>>, <<2, 1>>}
RaceMeta == [version |-> 1, nonce |-> "n1"]
RaceExpiries == {2 * TicksPerSec, MaxClock + 1}
SaverID == [s \in Savers |-> IF s = "s1" THEN "a" ELSE "b"]
Solo == {"s1"}
SweepTimes == {clock, MaxClock + TicksPerSec}

Next ==
    \/ \E s \in Solo, data \in RacePayloads, exp \in RaceExpiries :
          StoreSave(s, SaverID[s], RaceMeta, data, Len(data), exp)
    \/ \E s \in Solo, fail \in BOOLEAN : SaveInsert(s, fail)
    \/ \E c \in Consumers, id \in IDs : ConsumeCall(c, id)
    \/ \E c \in Consumers : ConsumeIndex(c)
    \/ \E c \in Consumers : ConsumeOpen(c)
    \/ \E c \in Consumers : ReaderClose(c)
    \/ \E t \in SweepTimes : DeleteExpired(t)
    \/ \E id \in IDs, fail \in BOOLEAN : ExpiredBlobDelete(id, fail)
    \/ DeleteExpiredReturn
    \/ ReconcileList
    \/ ReconcileIndex
    \/ \E id \in IDs : OrphanDelete(id)
    \/ ReconcileReturn
    \/ Tick

Spec == Init /\ [][Next]_vars

-----------------------------------------------------------------------------
(* SpecSeq: one secret, one call at a time (a reader held open does not     *)
(* count as a call in progress), created through the Service or saved       *)
(* directly, with every expiry and every TTL.                               *)

Quiet ==
    /\ \A s \in Savers : sv[s].pc \in {"idle", "done"}
    /\ \A c \in Consumers : cn[c].pc \in {"idle", "done", "reading"}
    /\ jn.pc = "idle"

TTLs == 0..(MaxTTL + 1)
ConsumeTexts == {IDText[id] : id \in IDs} \cup BadTexts
AllTimes == 0..(MaxClock + TicksPerSec)

NextSeq ==
    \/ \E s \in Solo, data \in RacePayloads, exp \in Times :
          Quiet /\ StoreSave(s, SaverID[s], RaceMeta, data, Len(data), exp)
    \/ \E s \in Solo, data \in RacePayloads, ttl \in TTLs :
          \E size \in {0, Len(data), MaxBytes + 1} :
             Quiet /\ CreateSecret(s, data, size, RaceMeta, ttl)
    \/ \E s \in Solo : ServiceSave(s)
    \/ \E s \in Solo, fail \in BOOLEAN : SaveInsert(s, fail)
    \/ \E c \in Consumers, id \in IDs : Quiet /\ ConsumeCall(c, id)
    \/ \E c \in Consumers, str \in ConsumeTexts : Quiet /\ ServiceConsume(c, str)
    \/ \E c \in Consumers : ConsumeIndex(c)
    \/ \E c \in Consumers : ConsumeOpen(c)
    \/ \E c \in Consumers : Quiet /\ ReaderClose(c)
    \/ \E t \in AllTimes : Quiet /\ DeleteExpired(t)
    \/ \E id \in IDs, fail \in BOOLEAN : ExpiredBlobDelete(id, fail)
    \/ DeleteExpiredReturn
    \/ Quiet /\ ReconcileList
    \/ ReconcileIndex
    \/ \E id \in IDs : OrphanDelete(id)
    \/ ReconcileReturn
    \/ Tick

SpecSeq == Init /\ [][NextSeq]_vars

-----------------------------------------------------------------------------
(* SpecSweep: two secrets saved with every expiry, and expiry sweeps with   *)
(* every cutoff; no Consume and no Reconcile.                               *)

NextSweep ==
    \/ \E s \in Savers, data \in RacePayloads, exp \in AllTimes :
          StoreSave(s, SaverID[s], RaceMeta, data, Len(data), exp)
    \/ \E s \in Savers, fail \in BOOLEAN : SaveInsert(s, fail)
    \/ \E t \in AllTimes : DeleteExpired(t)
    \/ \E id \in IDs, fail \in BOOLEAN : ExpiredBlobDelete(id, fail)
    \/ DeleteExpiredReturn
    \/ Tick

SpecSweep == Init /\ [][NextSweep]_vars

-----------------------------------------------------------------------------
(* SpecTrip: one secret with every payload, declared size and metadata,     *)
(* saved and then consumed by one caller.                                   *)

Sizes == (0 - 1)..(MaxLen + 1)
TripExpiries == {0, MaxClock, MaxClock + 1}
TripTTLs == {MinTTL, MinTTL + 1, MaxTTL}

NextTrip ==
    \/ \E s \in Solo, id \in IDs, meta \in Metas, data \in Payloads,
          size \in Sizes, exp \in TripExpiries :
          StoreSave(s, id, meta, data, size, exp)
    \/ \E s \in Solo, meta \in Metas, data \in Payloads, size \in Sizes, ttl \in TripTTLs :
          CreateSecret(s, data, size, meta, ttl)
    \/ \E s \in Solo : ServiceSave(s)
    \/ \E s \in Solo, fail \in BOOLEAN : SaveInsert(s, fail)
    \/ \E id \in IDs : ConsumeCall("c1", id)
    \/ ConsumeIndex("c1")
    \/ ConsumeOpen("c1")
    \/ ReaderClose("c1")
    \/ Tick

SpecTrip == Init /\ [][NextTrip]_vars

-----------------------------------------------------------------------------
(* SpecPure: the functions without state, each called directly, once in a   *)
(* behaviour, with inputs drawn from bounded sets, the Service's bounds     *)
(* included.                                                                *)

storeVars == <<clock, index, blobs, sv, cn, jn, minted, ret, swept, jan, mgr>>

PureTTLs == (0 - 1)..(MaxTTL + 2)
PureMinTTLs == 0..(MinTTL + 2)
PureMaxTTLs == 0..(MaxTTL + 1)
PureSizes == (0 - 1)..(MaxBytes + 2)
PureMaxBytes == 0..(MaxBytes + 1)

CallValidate(ttl, size, minTTL, maxTTL, maxBytes) ==
    /\ call = NoCall
    /\ call' = [fn |-> "validate", ints |-> <<ttl, size, minTTL, maxTTL, maxBytes>>,
                text |-> <<>>,
                out |-> ServiceValidate(ttl, size, minTTL, maxTTL, maxBytes)]
    /\ UNCHANGED storeVars

(* id texts: every length from 0 to 33 in one character, and the text of   *)
(* an id with one character replaced, at the first, a middle or the last   *)
(* position, by a character at or next to the ends of '0'..'9', 'a'..'f',  *)
(* by upper case, '.', NUL or 0xff                                         *)
EdgeChars == {0, 46, 47, 48, 57, 58, 64, 65, 70, 71, 96, 97, 102, 103, 255}
IDInputs ==
    {Repeat(ch, n) : ch \in {48, 102}, n \in 0..33}
       \cup {[IDText[id] EXCEPT ![i] = ch] : id \in IDs, i \in {1, 16, 32}, ch \in EdgeChars}
(* what rand.Read may leave in b: every byte value at every position *)
IDRandom == {[i \in 1..16 |-> (v + 17 * i) % 256] : v \in 0..255}

(* ParseID(s), and SecretID(s).Valid() *)
CallParseID(str) ==
    /\ call = NoCall
    /\ call' = [fn |-> "ParseID", ints |-> <<IF Valid(str) THEN 1 ELSE 0>>,
                text |-> str, out |-> ParseID(str).err]
    /\ UNCHANGED storeVars

(* NewID() with b the random bytes, and ParseID of its result *)
CallNewID(b) ==
    /\ call = NoCall
    /\ call' = [fn |-> "NewID", ints |-> <<IF Valid(NewID(b)) THEN 1 ELSE 0>>,
                text |-> NewID(b), out |-> ParseID(NewID(b)).err]
    /\ UNCHANGED storeVars

(* The guards Store's operations begin with, on a Store built with parts    *)
(* missing. st tells which of the receiver, index, blobs and clock are      *)
(* there (1) or nil (0); ext tells whether the call comes to the blob       *)
(* storage (a Save above inlineMax, a Consume or a sweep of an external     *)
(* record). The outcome is "error" (returned before anything is done),      *)
(* "panic" (a nil dereference) or "runs"; touched is 1 when the index has   *)
(* been read or written by then.                                            *)
StoreParts == [recv : {0, 1}, index : {0, 1}, blobs : {0, 1}, clock : {0, 1}]
Outcome(out, touched) == [out |-> out, touched |-> touched]

(* Store.Save *)
SaveGuard(st, ext) ==
    IF st.recv = 0 \/ st.index = 0 \/ st.clock = 0 THEN Outcome("error", 0)
    ELSE IF ext /\ st.blobs = 0 THEN Outcome("panic", 0)
    ELSE Outcome("runs", 1)
(* Store.Consume *)
ConsumeGuard(st, ext) ==
    IF st.recv = 0 \/ st.index = 0 THEN Outcome("error", 0)
    ELSE IF st.clock = 0 THEN Outcome("panic", 0)
    ELSE IF ext /\ st.blobs = 0 THEN Outcome("panic", 1)
    ELSE Outcome("runs", 1)
(* Store.DeleteExpired *)
DeleteExpiredGuard(st, ext) ==
    IF st.recv = 0 \/ st.index = 0 THEN Outcome("panic", 0)
    ELSE IF ext /\ st.blobs = 0 THEN Outcome("panic", 1)
    ELSE Outcome("runs", 1)
(* Store.Reconcile *)
ReconcileGuard(st, ext) ==
    IF st.recv = 0 THEN Outcome("panic", 0)
    ELSE IF st.index = 0 \/ st.blobs = 0 THEN Outcome("error", 0)
    ELSE Outcome("runs", 1)

StoreOps == {"Save", "Consume", "DeleteExpired", "Reconcile"}
StoreGuard(op, st, ext) ==
    CASE op = "Save" -> SaveGuard(st, ext)
      [] op = "Consume" -> ConsumeGuard(st, ext)
      [] op = "DeleteExpired" -> DeleteExpiredGuard(st, ext)
      [] op = "Reconcile" -> ReconcileGuard(st, ext)

CallStoreOp(op, st, ext) ==
    /\ call = NoCall
    /\ call' = [fn |-> op,
                ints |-> <<st.recv, st.index, st.blobs, st.clock, IF ext THEN 1 ELSE 0,
                           StoreGuard(op, st, ext).touched>>,
                text |-> <<>>, out |-> StoreGuard(op, st, ext).out]
    /\ UNCHANGED storeVars

NextPure ==
    \/ \E op \in StoreOps, st \in StoreParts, ext \in BOOLEAN : CallStoreOp(op, st, ext)
    \/ \E ttl \in PureTTLs, size \in PureSizes, minTTL \in PureMinTTLs,
          maxTTL \in PureMaxTTLs, maxBytes \in PureMaxBytes :
          CallValidate(ttl, size, minTTL, maxTTL, maxBytes)
    \/ \E str \in IDInputs : CallParseID(str)
    \/ \E b \in IDRandom : CallNewID(b)

SpecPure == Init /\ [][NextPure]_vars

-----------------------------------------------------------------------------
(* Delivery *)

(* the Consume calls on id whose DELETE returned the row, unexpired *)
Took(id) == {c \in Consumers : cn[c].id = id /\ cn[c].found = "row"}
(* the Consume calls on id that returned the payload *)
Delivered(id) ==
    {c \in Took(id) : cn[c].pc \in {"reading", "done"} /\ cn[c].err = "nil"}
(* a Consume call on id found the blob of the row it had taken gone *)
BlobLost(id) == \E c \in Took(id) : cn[c].err = "error"
InFlight(id) == \E c \in Consumers : cn[c].id = id /\ cn[c].pc \in {"index", "open"}
SavedOK(id) ==
    {s \in Savers : sv[s].pc = "done" /\ sv[s].err = "nil" /\ sv[s].id = id}
TouchedExpired(id) == \E c \in Consumers : cn[c].id = id /\ cn[c].found = "expired"

(* C1: unique delivery. Of the concurrent Consume calls on one id, in any   *)
(* interleaving, at most one takes the row and at most one returns the      *)
(* payload, and it is the payload that was saved; every call that did not   *)
(* take the row returns NotFound. Once the row of a saved, unexpired,       *)
(* unswept secret is gone and no call is still running, exactly one call    *)
(* has returned the payload (the one case apart: the janitor removed the    *)
(* blob before the call that took the row opened it).                       *)
C1_UniqueDelivery ==
    \A id \in IDs :
       /\ Cardinality(Took(id)) <= 1
       /\ Cardinality(Delivered(id)) <= 1
       /\ \A c \in Consumers :
             cn[c].pc = "done" /\ cn[c].id = id /\ c \notin Took(id)
                => cn[c].err = "NotFound"
       /\ (ret.op = "Consume" /\ ret.err = "nil" /\ ret.id = id)
             => \E s \in SavedOK(id) : ret.data = sv[s].data /\ ret.meta = sv[s].meta
       /\ (/\ SavedOK(id) # {}
           /\ id \notin DOMAIN index
           /\ id \notin swept
           /\ ~TouchedExpired(id)
           /\ ~InFlight(id)
           /\ ~BlobLost(id))
             => Cardinality(Delivered(id)) = 1

(* two calls on the same id are done: one has the payload, one NotFound *)
C1_Witness ==
    \E c1, c2 \in Consumers :
       /\ c1 # c2
       /\ c1 \in Delivered("a")
       /\ cn[c2].pc = "done" /\ cn[c2].id = "a" /\ cn[c2].err = "NotFound"

(* C2: no resurrection. Once a Consume of id has returned the payload, or   *)
(* an expiry sweep has removed the row of id, no Consume call on id takes   *)
(* the row or returns the payload, and every Consume call on id that        *)
(* completes returns NotFound.                                              *)
Gone(id) == Delivered(id) # {} \/ id \in swept
C2_NoResurrection ==
    [][\A id \in IDs :
          Gone(id) =>
             /\ Took(id)' \subseteq Took(id)
             /\ \A c \in Consumers :
                   (cn[c].pc = "index" /\ cn[c].id = id /\ cn'[c].pc # "index")
                      => cn'[c].pc = "done" /\ cn'[c].err = "NotFound"]_vars

(* a Consume call has just returned NotFound for an id whose payload an    *)
(* earlier call has returned and whose reader is closed                    *)
C2_Witness ==
    \E c1, c2 \in Consumers :
       /\ c1 \in Delivered("a") /\ cn[c1].pc = "done"
       /\ cn[c2].pc = "done" /\ cn[c2].id = "a" /\ cn[c2].found = "absent"
       /\ ret.op = "Consume" /\ ret.who = c2 /\ ret.err = "NotFound"

(* C6: every external row of the index has its blob file, in every          *)
(* reachable state, a Reconcile between the blob write and the index insert *)
(* of a Save included.                                                      *)
C6_ExternalRowHasBlob ==
    \A id \in ListExternalIDs(index) : id \in DOMAIN blobs

-----------------------------------------------------------------------------
(* Creation, expiry on touch, placement, round trip *)

IndexStep(c) == cn[c].pc = "index" /\ cn'[c].pc # "index"

(* C3: a Consume issued right after a successful CreateSecret, the clock    *)
(* not advanced since the Service read it and nothing in between, takes the *)
(* row unexpired and returns the payload, for every TTL the validation      *)
(* accepts.                                                                 *)
C3_CreateThenConsume ==
    [][\A c \in Consumers, s \in Savers :
          (cn[c].after = s /\ sv[s].viaService)
             => /\ (IndexStep(c) /\ cn[c].now = sv[s].now)
                   => cn'[c].found = "row" /\ cn'[c].err = "nil"
                /\ (cn[c].pc = "open" /\ cn'[c].pc # "open")
                   => cn'[c].pc = "reading"]_vars

StoredExpiresAt(id) == FromUnix(index[id].expires_at)

(* C5 as stated: a Consume whose clock reading is at or after the expiry of *)
(* the row returns NotFound and leaves no row.                              *)
C5_ExpiredOnTouch_Stated ==
    [][\A c \in Consumers :
          (/\ IndexStep(c)
           /\ cn[c].id \in DOMAIN index
           /\ cn[c].now >= StoredExpiresAt(cn[c].id))
             => /\ cn'[c].pc = "done" /\ cn'[c].err = "NotFound"
                /\ ret'.op = "Consume" /\ ret'.who = c /\ ret'.err = "NotFound"
                /\ cn[c].id \notin DOMAIN index']_vars

(* C5: a Consume whose clock reading is at or after the expiry of the row,  *)
(* equal included, returns NotFound and leaves no row, provided the stored  *)
(* expiry is not the zero time (a zero expiry never expires).               *)
C5_ExpiredOnTouch ==
    [][\A c \in Consumers :
          (/\ IndexStep(c)
           /\ cn[c].id \in DOMAIN index
           /\ ~IsZero(StoredExpiresAt(cn[c].id))
           /\ cn[c].now >= StoredExpiresAt(cn[c].id))
             => /\ cn'[c].pc = "done" /\ cn'[c].err = "NotFound"
                /\ ret'.op = "Consume" /\ ret'.who = c /\ ret'.err = "NotFound"
                /\ cn[c].id \notin DOMAIN index']_vars

(* a Consume at exactly the expiry has returned NotFound and the row is gone *)
C5_Witness ==
    \E c \in Consumers :
       /\ cn[c].found = "expired" /\ cn[c].now = cn[c].rowExp
       /\ ret.op = "Consume" /\ ret.who = c /\ ret.err = "NotFound"
       /\ cn[c].id \notin DOMAIN index

(* C4: round trip. A Consume that finds the row of a Save, unexpired,       *)
(* returns the metadata given to Save, the size bytes Save was given, and   *)
(* size equal to their number, inline and external alike.                   *)
C4_RoundTrip ==
    \A c \in Consumers :
       (ret.op = "Consume" /\ ret.who = c /\ cn[c].found = "row")
          => \E s \in SavedOK(ret.id) :
                /\ ret.err = "nil"
                /\ ret.meta = sv[s].meta
                /\ ret.data = sv[s].data
                /\ ret.size = Len(sv[s].data)

(* an external payload of the greatest length has come back *)
C4_Witness ==
    /\ ret.op = "Consume" /\ ret.err = "nil"
    /\ ret.data = <<1, 2, 1>> /\ ret.size = 3
    /\ ret.meta = [version |-> 2, nonce |-> "n2"]
    /\ cn[ret.who].pc = "reading"

(* C10: placement. A successful Save of size <= inlineMax leaves an inline  *)
(* row (external = 0, the bytes in the row, no blob file); one of size >    *)
(* inlineMax leaves an external row (external = 1, no inline bytes) and the *)
(* blob file of size bytes.                                                 *)
C10_Placement ==
    (ret.op = "Save" /\ ret.err = "nil")
       => LET row == index[ret.id]
          IN  /\ ret.size <= InlineMax
                 => /\ row.external = 0 /\ ~row.inlineNull
                    /\ Len(row.inline) = ret.size
                    /\ ret.id \notin DOMAIN blobs
              /\ ret.size > InlineMax
                 => /\ row.external = 1 /\ row.inlineNull /\ row.inline = <<>>
                    /\ ret.id \in DOMAIN blobs
                    /\ Len(blobs[ret.id].data) = ret.size

(* a Save of exactly inlineMax bytes has returned and the row is inline *)
C10_Witness ==
    /\ ret.op = "Save" /\ ret.err = "nil" /\ ret.size = InlineMax
    /\ index[ret.id].external = 0

-----------------------------------------------------------------------------
(* Expiry sweep *)

ExpireStep == jn.pc = "idle" /\ jn'.pc = "expDel"
RemovedRecords == {[ID |-> id, External |-> (index[id].external = 1)] :
                      id \in DOMAIN index \ DOMAIN index'}

-----------------------------------------------------------------------------
(* Reconcile *)

NoSaveInFlight == \A s \in Savers : sv[s].pc \in {"idle", "done"}

FailedAfterWrite(s) == sv[s].pc = "done" /\ sv[s].err = "error" /\ sv[s].external
InsertFailure(s) ==
    sv[s].pc = "insert" /\ sv[s].external /\ sv'[s].pc = "done" /\ sv'[s].err # "nil"

-----------------------------------------------------------------------------
(* Store.DeleteExpired as a whole *)

ExpiredReturnStep == jn.pc = "expDel" /\ jn'.pc = "idle"
ExternalOf(recs) == {r.ID : r \in {x \in recs : x.External}}

(* C11: DeleteExpired(t) returns the number of rows the index removed,      *)
(* inline and external alike; it calls BlobStore.Delete for exactly the     *)
(* removed external records and removes no other blob; rows that expire at  *)
(* or after t stay as they were; it returns nil and that count also when a  *)
(* blob deletion failed.                                                    *)
C11_DeleteExpired ==
    [][/\ ExpireStep
          => /\ Cardinality(jn'.recs) = Cardinality(DOMAIN index \ DOMAIN index')
             /\ \A id \in DOMAIN index :
                   StoredExpiresAt(id) >= jn'.t
                      => id \in DOMAIN index' /\ index'[id] = index[id]
       /\ (jn.pc = "expDel" /\ jn'.pc = "expDel")
          => \A id \in DOMAIN blobs \ DOMAIN blobs' : id \in ExternalOf(jn.recs)
       /\ ExpiredReturnStep
          => /\ ret'.op = "DeleteExpired" /\ ret'.err = "nil"
             /\ ret'.count = Cardinality(jn.recs)
             /\ ret'.tried = ExternalOf(jn.recs)]_vars

(* a sweep has returned a count of two, an inline and an external row,      *)
(* although the deletion of the blob failed                                 *)
C11_Witness ==
    /\ ret.op = "DeleteExpired" /\ ret.err = "nil"
    /\ ret.count = 2 /\ Cardinality(ret.tried) = 1
    /\ ret.failed = ret.tried
    /\ ret.tried \subseteq DOMAIN blobs

-----------------------------------------------------------------------------
(* Service validation *)

TTLAccepted(ttl, minTTL, maxTTL) == ttl > 0 /\ minTTL <= ttl /\ ttl <= maxTTL

(* C12: CreateSecret passes the TTL validation exactly when ttl > 0 and     *)
(* minTTL <= ttl <= maxTTL, whatever the bounds: minTTL and maxTTL are      *)
(* accepted, one tick below minTTL and one above maxTTL give TTLInvalid.    *)
C12_TTLBounds ==
    call.fn = "validate"
       => ((call.out # "TTLInvalid")
              <=> TTLAccepted(call.ints[1], call.ints[3], call.ints[4]))

(* a TTL one tick below minTTL, and positive, has been rejected *)
C12_Witness ==
    /\ call.fn = "validate" /\ call.out = "TTLInvalid"
    /\ call.ints[1] > 0 /\ call.ints[1] = call.ints[3] - 1
    /\ call.ints[1] <= call.ints[4]

(* C13: with a valid TTL, CreateSecret accepts the declared size exactly    *)
(* when 0 < size <= maxBytes; every other size gives SizeExceeded.          *)
C13_SizeBounds ==
    (call.fn = "validate" /\ TTLAccepted(call.ints[1], call.ints[3], call.ints[4]))
       => /\ (call.out = "nil") <=> (0 < call.ints[2] /\ call.ints[2] <= call.ints[5])
          /\ call.out \in {"nil", "SizeExceeded"}

(* size = maxBytes has been accepted *)
C13_Witness ==
    /\ call.fn = "validate" /\ call.out = "nil"
    /\ call.ints[2] = call.ints[5]

ValidationError == {"TTLInvalid", "SizeExceeded", "InvalidID"}

(* C14: validation errors never reach the store. A CreateSecret that        *)
(* returns TTLInvalid or SizeExceeded and a Service Consume that returns    *)
(* InvalidID return in their first step, before any call of the store and   *)
(* before an id is minted: index, blobs and the minted ids are unchanged.   *)
(* A CreateSecret that does reach Store.Save carries an accepted TTL and an *)
(* accepted size.                                                           *)
C14_ValidationFrame ==
    [][/\ (ret'.op \in {"CreateSecret", "Consume"} /\ ret'.err \in ValidationError
              /\ ret' # ret)
          => /\ ret'.id = ""
             /\ index' = index /\ blobs' = blobs /\ minted' = minted
             /\ ret'.op = "CreateSecret" => sv[ret'.who].pc = "idle"
             /\ ret'.op = "Consume" => cn[ret'.who].pc = "idle"
       /\ \A s \in Savers :
             (sv[s].pc = "idle" /\ sv'[s].pc = "save")
                => /\ TTLAccepted(sv'[s].exp - sv'[s].now, MinTTL, MaxTTL)
                   /\ 0 < sv'[s].size /\ sv'[s].size <= MaxBytes]_vars

(* a Consume has returned InvalidID with a row and its blob in the store *)
C14_Witness ==
    /\ ret.op = "Consume" /\ ret.err = "InvalidID"
    /\ DOMAIN index # {} /\ DOMAIN blobs # {}

(* CreateSecret returns to s in this step, Store.Save having been called *)
CreateReturnStep(s) ==
    /\ sv[s].viaService /\ sv[s].pc \in {"save", "insert"} /\ sv'[s].pc = "done"

(* C15: a CreateSecret that passes validation reads the clock once, in its *)
(* first step; whatever the clock shows later, the expiry it returns is    *)
(* that reading plus the caller's ttl. On success the row Store.Save has   *)
(* inserted is the row of the returned id, a valid SecretID, with the      *)
(* caller's version and nonce, the declared size and that same expiry (in  *)
(* whole seconds). The call fails exactly when Store.Save has failed, with *)
(* Save's error and nothing inserted.                                      *)
C15_CreateSecret ==
    [][\A s \in Savers :
          /\ (sv[s].pc = "idle" /\ sv'[s].pc = "save")
                => /\ sv'[s].now = clock
                   /\ sv'[s].id \notin minted /\ isValidID(IDText[sv'[s].id])
          /\ CreateReturnStep(s)
                => /\ ret'.op = "CreateSecret" /\ ret'.who = s /\ ret'.id = sv[s].id
                   /\ ret'.t = sv[s].now + sv[s].req.ttl
                   /\ ret'.err \in {"nil", "error"}
                   /\ ret'.err = "nil"
                         => /\ ret'.id \in DOMAIN index' \ DOMAIN index
                            /\ index'[ret'.id].version = sv[s].req.meta.version
                            /\ index'[ret'.id].nonce_b64u = sv[s].req.meta.nonce
                            /\ index'[ret'.id].size = sv[s].req.size
                            /\ index'[ret'.id].expires_at = Unix(ret'.t)
                   /\ ret'.err = "error" => index' = index]_vars

(* CreateSecret has returned an external secret after the clock has moved on *)
C15_Witness ==
    /\ ret.op = "CreateSecret" /\ ret.err = "nil"
    /\ ret.id \in DOMAIN index /\ index[ret.id].external = 1
    /\ clock > sv[ret.who].now

-----------------------------------------------------------------------------
(* BlobStore alone: every call with every kind of id text *)

BlobTexts == {IDText[id] : id \in IDs} \cup BadTexts
                \cup {[Repeat(97, 32) EXCEPT ![1] = 46, ![2] = 46]}
WriteSizes == {1, 2}
BlobReaders == {"c1"}

NextBlob ==
    \/ \E str \in BlobTexts, data \in RacePayloads, size \in WriteSizes, syncFails \in BOOLEAN :
          Write(str, data, size, syncFails)
    \/ \E c \in BlobReaders, str \in BlobTexts : Consume(c, str)
    \/ \E c \in BlobReaders : ReaderRead(c)
    \/ \E c \in BlobReaders : ReaderClose(c)
    \/ \E str \in BlobTexts : Delete(str)

SpecBlob == Init /\ [][NextBlob]_vars

(* a Write of a well-formed id returns in this step *)
WriteStep(id) ==
    /\ ret'.op = "Blob.Write" /\ ret'.id = id /\ ret' # ret

(* C16: Write fails when a blob for id already exists and leaves that blob  *)
(* unchanged; a Write that fails after creating the file (short read, or a  *)
(* failed flush) leaves no blob file for id.                                *)
C16_WriteFailure ==
    [][\A id \in IDs :
          WriteStep(id)
             => /\ id \in DOMAIN blobs => (ret'.err = "error" /\ blobs' = blobs)
                /\ (id \notin DOMAIN blobs /\ ret'.err = "error")
                      => id \notin DOMAIN blobs']_vars

(* C17: delete-on-close. Closing the reader that BlobStore.Consume(id) has  *)
(* returned removes the blob of id, whatever number of bytes was read; and *)
(* with the blob absent, Consume(id) and Delete(id) fail and change nothing. *)
C17_DeleteOnClose ==
    [][/\ \A c \in Consumers :
             (cn[c].pc = "reading" /\ cn'[c].pc = "done")
                => /\ cn[c].id \notin DOMAIN blobs'
                   /\ \A id \in DOMAIN blobs \ {cn[c].id} :
                         id \in DOMAIN blobs' /\ blobs'[id] = blobs[id]
       /\ (ret'.op \in {"Blob.Consume", "Blob.Delete"} /\ ret' # ret
              /\ ret'.id \in IDs /\ ret'.id \notin DOMAIN blobs)
             => (ret'.err = "error" /\ blobs' = blobs)]_vars

(* a reader of id was closed with no byte read, and a Delete(id) has failed *)
C17_Witness ==
    /\ cn["c1"].pc = "done" /\ cn["c1"].err = "nil" /\ cn["c1"].read = 0
    /\ ret.op = "Blob.Delete" /\ ret.id = cn["c1"].id /\ ret.err = "error"

HexChars == (48..57) \cup (97..102)
WellFormed(str) == Len(str) = 32 /\ \A i \in 1..Len(str) : str[i] \in HexChars
BlobOps == {"Blob.Write", "Blob.Consume", "Blob.Delete"}

(* C18: BlobStore.Write, Consume and Delete called with an id that is not   *)
(* exactly 32 characters of [0-9a-f] return an error and leave every file   *)
(* as it was; except Delete(""), which returns no error and changes nothing. *)
C18_InvalidBlobID ==
    [][(ret'.op \in BlobOps /\ ret' # ret /\ ~WellFormed(ret'.text))
          => /\ blobs' = blobs
             /\ ret'.err = IF ret'.op = "Blob.Delete" /\ ret'.text = <<>>
                           THEN "nil" ELSE "error"]_vars

(* a Write with a 31-character id has failed, a blob being in the store *)
C18_Witness ==
    /\ ret.op = "Blob.Write" /\ Len(ret.text) = 31 /\ ret.err = "error"
    /\ DOMAIN blobs # {}

(* C19: ParseID(s) succeeds exactly when s has 32 characters, all of them  *)
(* in 0-9 or a-f (upper case is rejected), and fails with InvalidID        *)
(* otherwise; Valid() of the same text agrees with ParseID; and every id   *)
(* NewID returns has 32 such characters and is accepted by both.           *)
C19_ParseID ==
    /\ call.fn \in {"ParseID", "NewID"}
          => /\ (call.out = "nil") <=> WellFormed(call.text)
             /\ call.out \in {"nil", "InvalidID"}
             /\ (call.ints[1] = 1) <=> (call.out = "nil")
    /\ call.fn = "NewID" => call.out = "nil"

(* an id in upper case at its last character has been rejected *)
C19_Witness ==
    /\ call.fn = "ParseID" /\ call.out = "InvalidID"
    /\ Len(call.text) = 32 /\ call.text[32] = 70
    /\ \A i \in 1..31 : call.text[i] \in HexChars

-----------------------------------------------------------------------------
(* Two Saves that may name the same id, inline or external, one after the *)
(* other or interleaved                                                    *)

DupExpiries == {MaxClock, MaxClock + TicksPerSec}

NextDup ==
    \/ \E s \in Savers, id \in IDs, meta \in Metas, data \in RacePayloads, exp \in DupExpiries :
          StoreSave(s, id, meta, data, Len(data), exp)
    \/ \E s \in Savers, fail \in BOOLEAN : SaveInsert(s, fail)
    \/ Tick

SpecDup == Init /\ [][NextDup]_vars

(* the step is one of the Save of s *)
SaveStepOf(s) == sv'[s] # sv[s]

(* C20: Index.Insert of an id that has a row fails and leaves the index as *)
(* it was; so no step of a Store.Save whose id has a row changes that      *)
(* row (metadata, inline bytes) or the row's blob, and the Save returns an *)
(* error.                                                                  *)
C20_DuplicateID ==
    [][\A s \in Savers :
          (SaveStepOf(s) /\ sv'[s].id \in DOMAIN index)
             => /\ index' = index
                /\ (index[sv'[s].id].external = 1 /\ sv'[s].id \in DOMAIN blobs)
                      => /\ sv'[s].id \in DOMAIN blobs'
                         /\ blobs'[sv'[s].id] = blobs[sv'[s].id]
                /\ sv'[s].pc = "done" => (ret'.who = s /\ ret'.err = "error")]_vars

(* a Save of an id that has an inline row wrote a blob, its insert failed, *)
(* and the row is still the one the other Save, with another nonce, made   *)
C20_Witness ==
    /\ ret.op = "Save" /\ ret.who = "s2" /\ ret.err = "error"
    /\ sv["s1"].pc = "done" /\ sv["s1"].err = "nil" /\ sv["s1"].id = ret.id
    /\ sv["s1"].meta # sv["s2"].meta
    /\ ret.id \in DOMAIN index /\ index[ret.id].external = 0
    /\ index[ret.id].nonce_b64u = sv["s1"].meta.nonce
    /\ ret.id \in DOMAIN blobs


(* Reconcile takes its listing of the blobs in this step *)
ListStep == jn.pc = "idle" /\ jn'.pc = "recIndex"

C22_NilGuards ==
    (call.fn \in StoreOps /\ call.ints[1] = 1
        /\ (call.ints[2] = 0 \/ call.ints[3] = 0 \/ call.ints[4] = 0))
       => (call.out = "error" /\ call.ints[6] = 0)


(* C23 as stated: the TTL range check applies only to bounds that are      *)
(* positive: a ttl > 0 is not rejected from below when minTTL <= 0 and not *)
(* rejected from above when maxTTL <= 0.                                   *)
C23_PositiveBounds_Stated ==
    (/\ call.fn = "validate" /\ call.ints[1] > 0
     /\ (call.ints[3] <= 0 \/ call.ints[3] <= call.ints[1])
     /\ (call.ints[4] <= 0 \/ call.ints[1] <= call.ints[4]))
       => call.out # "TTLInvalid"

(* C23: the TTL range check is unconditional. With minTTL <= 0 a ttl > 0   *)
(* is never rejected from below; with maxTTL <= 0 every ttl is rejected,   *)
(* TTLInvalid, since a ttl > 0 is above maxTTL.                            *)
C23_PositiveBounds ==
    call.fn = "validate"
       => /\ call.ints[4] <= 0 => call.out = "TTLInvalid"
          /\ (call.ints[3] <= 0 /\ call.ints[1] > 0 /\ call.ints[1] <= call.ints[4])
                => call.out # "TTLInvalid"

(* a ttl > 0 has been rejected with maxTTL = 0 and minTTL = 0 *)
C23_Witness ==
    /\ call.fn = "validate" /\ call.ints[1] > 0
    /\ call.ints[3] = 0 /\ call.ints[4] = 0
    /\ call.out = "TTLInvalid"


-----------------------------------------------------------------------------
(* The janitor with its callers, and two secrets saved meanwhile *)

JanExpiries == {TicksPerSec - 1, MaxClock + TicksPerSec}

NextJan ==
    \/ Start
    \/ StopSignal
    \/ StopReturn
    \/ Cancel
    \/ TickerFire
    \/ LoopExit
    \/ LoopCycle
    \/ CycleExpire
    \/ jan.pc = "expire" /\ DeleteExpiredFails
    \/ \E id \in IDs, fail \in BOOLEAN : ExpiredBlobDelete(id, fail)
    \/ DeleteExpiredReturn
    \/ CycleReconcile
    \/ jan.pc = "reconcile" /\ ReconcileFails
    \/ ReconcileIndex
    \/ \E id \in IDs : OrphanDelete(id)
    \/ ReconcileReturn
    \/ CycleRecord
    \/ Tick
    \/ \E s \in Solo, data \in RacePayloads, exp \in JanExpiries :
          StoreSave(s, SaverID[s], RaceMeta, data, Len(data), exp)
    \/ \E s \in Solo, fail \in BOOLEAN : SaveInsert(s, fail)

SpecJan == Init /\ [][NextJan]_vars


(* C24: Start moves the Janitor from idle to running: it sets the ticker   *)
(* and launches the loop. Every later Start changes nothing: the ticker    *)
(* with its pending tick stays, no loop is launched, so at most one loop   *)
(* was ever launched.                                                      *)
C24_StartOnce ==
    [][jan'.starts = jan.starts + 1
          => /\ IF jan.starts = 0
                THEN /\ jan.pc = "none" /\ ~jan.ticker
                     /\ jan'.pc = "select" /\ jan'.ticker /\ jan'.loops = 1
                ELSE jan' = [jan EXCEPT !.starts = @ + 1]
             /\ jan'.loops <= 1]_vars

(* Start was called twice while the one loop is in a cycle *)
C24_Witness ==
    /\ jan.starts = 2 /\ jan.loops = 1 /\ jan.pc = "reconcile"

(* C25: Stop returns only when the loop has exited, and after Stop has     *)
(* returned the Janitor starts no cycle: no step of DeleteExpired or       *)
(* Reconcile, the loop stays exited, the cycles counter stays.             *)
C25_StopBlocks ==
    [][/\ (jan.stop = "waiting" /\ jan'.stop = "returned") => jan.pc = "exited"
       /\ jan.stop = "returned"
             => /\ jan.pc = "exited" /\ jan'.pc = "exited"
                /\ jn' = jn /\ jan'.Cycles = jan.Cycles
                /\ jan'.expires = jan.expires /\ jan'.recons = jan.recons]_vars

(* Stop has returned after a cycle, a tick still waiting in the ticker, and *)
(* Start was called again                                                   *)
C25_Witness ==
    /\ jan.stop = "returned" /\ jan.Cycles >= 1 /\ jan.tickC /\ jan.starts = 2
    /\ ret.op = "none"

InCycle(j) == j.pc \in {"expire", "reconcile", "record"}

(* the calls of the store that have returned, by the loop's position *)
CycleCalls(j) ==
    /\ j.expires = j.Cycles + (IF j.pc \in {"reconcile", "record"} THEN 1 ELSE 0)
    /\ j.recons = j.Cycles + (IF j.pc = "record" THEN 1 ELSE 0)

(* C27: every cycle makes one call of DeleteExpired and then one call of   *)
(* Reconcile, also when DeleteExpired has failed; when the cycle ends the  *)
(* cycles counter has grown by 1 and the deleted (and processed) counter   *)
(* by the count DeleteExpired returned, 0 when it failed.                  *)
C27_Cycle ==
    [][/\ CycleCalls(jan) /\ CycleCalls(jan')
       /\ jan'.expires # jan.expires
             => /\ jan.pc = "expire" /\ jan'.pc = "reconcile"
                /\ ret'.op = "DeleteExpired"
                /\ jan'.count = IF ret'.err = "nil" THEN ret'.count ELSE 0
       /\ jan'.recons # jan.recons
             => /\ jan.pc = "reconcile" /\ jan'.pc = "record"
                /\ ret'.op = "Reconcile" /\ jan'.count = jan.count
       /\ jan'.Cycles # jan.Cycles
             => /\ jan.pc = "record" /\ jan'.pc = "select"
                /\ jan'.Cycles = jan.Cycles + 1
                /\ jan'.Deleted = jan.Deleted + jan.count
                /\ jan'.Processed = jan.Processed + jan.count
       /\ jan'.Cycles = jan.Cycles
             => (jan'.Deleted = jan.Deleted /\ jan'.Processed = jan.Processed)]_vars

(* two cycles are done, one of them removed the expired secret *)
C27_Witness ==
    /\ jan.Cycles = 2 /\ jan.Deleted = 1 /\ jan.pc = "select"

(* C28: each cycle sends to the collector given to New: the counter        *)
(* secrets_expired_deleted_total grows by the cycle's count, and one       *)
(* observation of janitor_deleted_per_cycle with that count is added.      *)
C28_SinkMetrics ==
    [][jan'.Cycles = jan.Cycles + 1
          => /\ jan'.sink.counter = jan.sink.counter + jan.count
             /\ jan'.sink.observes = Append(jan.sink.observes, jan.count)]_vars

-----------------------------------------------------------------------------
(* The janitor under fair scheduling: the loop goroutine and the store     *)
(* calls it makes go on (weak fairness); select takes a ready case at      *)
(* random, so no ready case is passed over for ever (strong fairness of    *)
(* the exit); a Stop whose receive is ready returns.                       *)

CycleStep ==
    \/ CycleExpire
    \/ \E id \in IDs, fail \in BOOLEAN : ExpiredBlobDelete(id, fail)
    \/ DeleteExpiredReturn
    \/ CycleReconcile
    \/ ReconcileIndex
    \/ \E id \in IDs : OrphanDelete(id)
    \/ ReconcileReturn
    \/ CycleRecord

SpecJanLive ==
    /\ Init /\ [][NextJan]_vars
    /\ WF_vars(CycleStep)
    /\ SF_vars(LoopExit)
    /\ WF_vars(StopReturn)

(* C26: once the context is cancelled or Stop is called, a running loop    *)
(* exits in the end; it exits from its select only, so a cycle that has    *)
(* begun runs to its end (the cycles counter grows) before the loop exits. *)
C26_LoopExits ==
    /\ [][InCycle(jan) => jan'.pc # "exited"]_vars
    /\ ((jan.cancelled \/ jan.stopClosed) /\ jan.pc # "none") ~> (jan.pc = "exited")
    /\ \A n \in 0..MaxCycles :
          (InCycle(jan) /\ jan.Cycles = n) ~> (jan.Cycles = n + 1)

(* the loop has exited on the cancelled context, no Stop called, after a   *)
(* cycle that was running when the context was cancelled                   *)
C26_Witness ==
    /\ jan.pc = "exited" /\ jan.cancelled /\ ~jan.stopClosed
    /\ jan.Cycles >= 1


-----------------------------------------------------------------------------
(* metrics.Manager: Start, Inc, Observe, Stop and the loop goroutine *)

MgrStep(m) ==
    /\ mgr' = m
    /\ ret' = NoRet
    /\ UNCHANGED <<clock, index, blobs, sv, cn, jn, minted, swept, call, jan>>

(* Start: if m.started { return }; m.started = true; go m.loop(ctx) *)
MgrStart ==
    MgrStep(IF mgr.started THEN mgr ELSE [mgr EXCEPT !.started = TRUE, !.pc = "select"])

(* the non-blocking send of Inc and Observe: dropped when the channel is full *)
Send(m, ev) ==
    IF Len(m.events) < EventsCap THEN [m EXCEPT !.events = Append(@, ev)] ELSE m

(* history: the deltas of the Inc calls whose event went into the channel *)
(* before Stop was called                                                 *)
Accepted(m, name, delta) ==
    IF Len(m.events) < EventsCap /\ m.stop = "idle"
    THEN [m EXCEPT !.accepted[name] = @ + delta] ELSE m

MgrInc(name, delta) ==
    /\ mgr.sent < MaxEvents
    /\ MgrStep([(IF delta <= 0 THEN mgr
                 ELSE Send(Accepted(mgr, name, delta),
                           [kind |-> "inc", name |-> name, v |-> delta]))
                  EXCEPT !.sent = @ + 1])

MgrObserve(name, value) ==
    /\ mgr.sent < MaxEvents
    /\ MgrStep([Send(mgr, [kind |-> "observe", name |-> name, v |-> value])
                  EXCEPT !.sent = @ + 1])

(* loop: case ev := <-m.events: m.apply(ev) *)
MgrLoopEvent ==
    /\ mgr.pc = "select"
    /\ mgr.events # <<>>
    /\ MgrStep([MgrApply(mgr, Head(mgr.events)) EXCEPT !.events = Tail(@)])

(* a caller that drains the channel itself while no loop runs *)
MgrDrain ==
    /\ mgr.pc = "none"
    /\ mgr.stop = "idle"
    /\ mgr.events # <<>>
    /\ MgrStep([MgrApply(mgr, Head(mgr.events)) EXCEPT !.events = Tail(@)])

(* loop: case <-Ticker.C: m.flush(ctx), the error logged *)
MgrLoopFlush(fail) ==
    /\ mgr.pc = "select"
    /\ mgr.mem # NoDeltas
    /\ MgrStep(Flush(mgr, fail))

MgrCancel ==
    /\ ~mgr.cancelled
    /\ MgrStep([mgr EXCEPT !.cancelled = TRUE])

(* loop: case <-ctx.Done(), case <-m.stop: return; deferred close(m.done) *)
MgrLoopExit ==
    /\ mgr.pc = "select"
    /\ mgr.cancelled \/ mgr.stopClosed
    /\ MgrStep([mgr EXCEPT !.pc = "exited", !.doneClosed = TRUE])

(* Stop with a loop started: close(m.stop) *)
MgrStopSignal ==
    /\ mgr.stop = "idle"
    /\ mgr.started
    /\ MgrStep([mgr EXCEPT !.stopClosed = TRUE, !.stop = "waiting"])

(* Stop: the final flush, its error dropped; at once when no loop was      *)
(* started, after <-m.done otherwise                                       *)
MgrStopFlush(fail) ==
    /\ \/ mgr.stop = "idle" /\ ~mgr.started
       \/ mgr.stop = "waiting" /\ mgr.doneClosed
    /\ MgrStep([Flush(mgr, fail) EXCEPT !.stop = "returned"])

NextMetrics ==
    \/ MgrStart
    \/ \E name \in CounterNames, delta \in IncDeltas : MgrInc(name, delta)
    \/ \E name \in SummaryNames, value \in ObserveValues : MgrObserve(name, value)
    \/ MgrLoopEvent
    \/ MgrDrain
    \/ \E fail \in BOOLEAN : MgrLoopFlush(fail)
    \/ MgrCancel
    \/ MgrLoopExit
    \/ MgrStopSignal
    \/ \E fail \in BOOLEAN : MgrStopFlush(fail)

SpecMetrics == Init /\ [][NextMetrics]_vars

StopReturnStep == mgr.stop # "returned" /\ mgr'.stop = "returned"

C29_WitnessNoStart ==
    /\ mgr.stop = "returned" /\ ~mgr.started
    /\ mgr.db.counters["secrets_created_total"] = 2


(* every external row is the row of a Save that has written its blob and   *)
(* returned without error                                                  *)
ExternalRowsSaved(idx, svs) ==
    \A id \in DOMAIN idx :
        idx[id].external = 1
            => \E s \in Savers : /\ svs[s].pc = "done" /\ svs[s].err = "nil"
                                 /\ svs[s].id = id /\ svs[s].external

(* C30: two-phase ordering. The step of an external Save that writes the   *)
(* blob leaves the index alone, and the row appears in a later step of the *)
(* same Save, which leaves the blobs alone; Consume's step that deletes    *)
(* the row leaves the blobs alone, and the blob is opened in a later step, *)
(* the row already gone; no external row is in the index unless the Save   *)
(* it comes from had written its blob.                                     *)
C30_TwoPhase ==
    [][/\ ExternalRowsSaved(index, sv) /\ ExternalRowsSaved(index', sv')
       /\ \A s \in Savers :
             (sv[s].pc # "insert" /\ sv'[s].pc = "insert" /\ sv'[s].external)
                => /\ index' = index
                   /\ sv'[s].id \notin DOMAIN blobs
                   /\ sv'[s].id \in DOMAIN blobs'
                   /\ blobs'[sv'[s].id].mtime = sv'[s].createdAt
       /\ \A id \in IDs :
             (id \notin DOMAIN index /\ id \in DOMAIN index' /\ index'[id].external = 1)
                => /\ blobs' = blobs
                   /\ \E s \in Savers : /\ sv[s].pc = "insert" /\ sv[s].external
                                        /\ sv[s].id = id /\ sv'[s].pc = "done"
       /\ \A c \in Consumers :
             /\ (cn[c].pc # "open" /\ cn'[c].pc = "open")
                   => /\ cn[c].pc = "index"
                      /\ cn[c].id \in DOMAIN index /\ cn[c].id \notin DOMAIN index'
                      /\ blobs' = blobs
             /\ (cn[c].pc # "reading" /\ cn'[c].pc = "reading")
                   => /\ cn[c].pc = "open"
                      /\ index' = index]_vars

(* a consumer has deleted the row of an external record, whose Save wrote  *)
(* the blob and then inserted the row, and has not opened the blob yet     *)
C30_Witness ==
    \E c \in Consumers, s \in Savers :
        /\ sv[s].pc = "done" /\ sv[s].err = "nil" /\ sv[s].external
        /\ cn[c].pc = "open"
        /\ cn[c].id = sv[s].id
        /\ cn[c].id \notin DOMAIN index
        /\ cn[c].id \in DOMAIN blobs


-----------------------------------------------------------------------------
(* Index.ExpireBefore statement by statement: BeginTx, the SELECT, the      *)
(* DELETE, Commit, with the statements of other connections in between.    *)
(* The database is opened in WAL mode: the SELECT of the transaction reads *)
(* a snapshot, and its DELETE is refused (busy) when another connection    *)
(* has committed a write since that snapshot; expireBefore then rolls back *)
(* and returns the error. The snapshot is compared by the table's content. *)

SnapshotStaleNever(ix, snap) == FALSE
SnapshotStale(ix, snap) == ix # snap

(* expireBefore: db.BeginTx, selectExpired *)
TxSelectExpired(t) ==
    /\ jn.pc = "idle"
    /\ jn' = [JnIdle EXCEPT !.pc = "txSelected", !.t = t,
                            !.recs = ExpireSelect(index, t), !.snap = index]
    /\ ret' = NoRet
    /\ UNCHANGED <<clock, index, blobs, sv, cn, minted, swept, call, jan, mgr>>

(* expireBefore: deleteExpired, tx.Commit; Store.DeleteExpired returns 0 and *)
(* the error when the transaction failed                                     *)
TxDeleteExpired ==
    /\ jn.pc = "txSelected"
    /\ IF SnapshotStale(index, jn.snap)
       THEN /\ jn' = JnIdle
            /\ ret' = Returns("DeleteExpired", "j", "", "error")
            /\ UNCHANGED <<index, swept>>
       ELSE /\ index' = ExpireDelete(index, jn.t)
            /\ swept' = swept \cup {r.ID : r \in jn.recs}
            /\ jn' = [jn EXCEPT !.pc = "expDel", !.snap = <<>>,
                                !.pending = {r.ID : r \in {x \in jn.recs : x.External}}]
            /\ ret' = NoRet
    /\ UNCHANGED <<clock, blobs, sv, cn, minted, call, jan, mgr>>

TxExpiries == {TicksPerSec - 1, MaxClock + 1}

NextTx ==
    \/ \E s \in Solo, data \in RacePayloads, exp \in TxExpiries :
          StoreSave(s, SaverID[s], RaceMeta, data, Len(data), exp)
    \/ \E s \in Solo, fail \in BOOLEAN : SaveInsert(s, fail)
    \/ \E c \in Consumers, id \in IDs : ConsumeCall(c, id)
    \/ \E c \in Consumers : ConsumeIndex(c)
    \/ \E c \in Consumers : ConsumeOpen(c)
    \/ \E c \in Consumers : ReaderClose(c)
    \/ \E t \in SweepTimes : TxSelectExpired(t)
    \/ TxDeleteExpired
    \/ \E id \in IDs, fail \in BOOLEAN : ExpiredBlobDelete(id, fail)
    \/ DeleteExpiredReturn
    \/ Tick

SpecTx == Init /\ [][NextTx]_vars

(* the Consume calls to which Index.Consume returned the row of id *)
GotRow(cns, id) == {c \in Consumers : cns[c].id = id /\ cns[c].found \in {"row", "expired"}}

(* C31: ExpireBefore is atomic with respect to Index.Consume. Each row is   *)
(* removed by exactly one of them: a Consume that finds the row gets it    *)
(* whole and no ExpireBefore returns its id; a row ExpireBefore returns is  *)
(* one it has removed itself, and every Consume of it gets NotFound; a row  *)
(* that was inserted and is gone was taken by the one or the other.         *)
C31_ExpireAtomic ==
    [][\A id \in IDs :
          /\ ~(id \in swept' /\ GotRow(cn', id) # {})
          /\ Cardinality(GotRow(cn', id)) <= 1
          /\ (id \in DOMAIN index /\ id \notin DOMAIN index')
                => \/ /\ id \in swept' \ swept
                      /\ GotRow(cn', id) = {}
                      /\ index[id].expires_at < Unix(jn.t)
                      /\ ExpiredRecord(index, id) \in jn'.recs
                   \/ /\ id \notin swept'
                      /\ \E c \in Consumers :
                            /\ GotRow(cn', id) = {c} /\ GotRow(cn, id) = {}
                            /\ cn'[c].rowExp \in {0, FromUnix(index[id].expires_at)}
          /\ (id \in swept' \ swept) => (id \in DOMAIN index /\ id \notin DOMAIN index')
          /\ (SavedOK(id)' # {} /\ id \notin DOMAIN index')
                => (id \in swept' \/ GotRow(cn', id) # {})]_vars

(* a Consume took the expired row between the SELECT and the DELETE of a   *)
(* sweep that had selected it; the sweep failed and returned no record     *)
C31_Witness ==
    /\ ret.op = "DeleteExpired" /\ ret.err = "error"
    /\ GotRow(cn, "a") # {} /\ "a" \notin swept
    /\ \E c \in Consumers : cn[c].id = "a" /\ cn[c].found = "absent"


(* the rows Store.Save has inserted: every row of the index *)
SavedRow(row) ==
    /\ (row.external = 1) <=> row.inlineNull
    /\ row.external \in {0, 1}
    /\ row.size >= 0
    /\ row.external = 0 => row.size = Len(row.inline)
    /\ row.external = 1 => row.inline = <<>>

(* C32: every row Store.Save has created is inline or external, never both *)
(* and never neither: external is set exactly when the inline column is    *)
(* NULL; its size is not negative, and an inline row's size is the number  *)
(* of inline bytes (none for size 0, an empty value that is not NULL).     *)
C32_RowShape ==
    /\ \A id \in DOMAIN index : SavedRow(index[id])
    /\ (ret.op = "Save" /\ ret.err = "nil") => (ret.id \in DOMAIN index /\ ret.size >= 0)

(* Save of size 0 has inserted an inline row with an empty, non-NULL value *)
C32_Witness ==
    /\ ret.op = "Save" /\ ret.err = "nil"
    /\ ret.id \in DOMAIN index
    /\ index[ret.id].size = 0 /\ index[ret.id].external = 0
    /\ ~index[ret.id].inlineNull /\ index[ret.id].inline = <<>>

(* Save of more than inlineMax bytes has inserted an external row *)
C32_WitnessExternal ==
    /\ ret.op = "Save" /\ ret.err = "nil"
    /\ ret.id \in DOMAIN index
    /\ index[ret.id].external = 1 /\ index[ret.id].inlineNull
    /\ index[ret.id].size = InlineMax + 1


(* C33: every row inserted through Service.CreateSecret has a stored expiry *)
(* after its stored creation time, for every accepted ttl and whatever the  *)
(* clock does between the Service's reading and the Store's.                *)
C33_ExpiresAfterCreated ==
    (ret.op = "CreateSecret" /\ ret.err = "nil")
        => /\ ret.id \in DOMAIN index
           /\ index[ret.id].expires_at > index[ret.id].created_at


C35_SweepOnlyExpired_Stated ==
    [][ExpireStep =>
          \A id \in DOMAIN index \ DOMAIN index' :
              expired(jn'.t, IndexResult(index[id]).ExpiresAt)]_vars

(* C35: every row that ExpireBefore(t) removes and whose stored expiry is  *)
(* not the zero time is one that Store.Consume, reading the clock at t,    *)
(* finds expired, also when t and the expiry have parts of a second; a row *)
(* stored with the zero time is removed by the sweep although Consume      *)
(* never finds it expired.                                                 *)
C35_SweepOnlyExpired ==
    [][ExpireStep =>
          \A id \in DOMAIN index \ DOMAIN index' :
              /\ index[id].expires_at < Unix(jn'.t)
              /\ \/ IsZero(IndexResult(index[id]).ExpiresAt)
                 \/ expired(jn'.t, IndexResult(index[id]).ExpiresAt)]_vars

(* a sweep at a time with half a second has removed the row of a secret    *)
(* created through the Service whose expiry had half a second as well      *)
C35_Witness ==
    /\ jn.pc = "expDel" /\ jn.recs # {}
    /\ jn.t % TicksPerSec # 0
    /\ \E s \in Savers :
          /\ sv[s].pc = "done" /\ sv[s].err = "nil" /\ sv[s].viaService
          /\ sv[s].exp % TicksPerSec # 0 /\ Unix(sv[s].exp) >= 1
          /\ sv[s].id \in {r.ID : r \in jn.recs}


(* the blob of id is left without a row by a Consume that found the row expired *)
LeftByExpiredConsume(id) ==
    /\ id \in DOMAIN blobs /\ id \notin DOMAIN index
    /\ \E c \in Consumers : cn[c].id = id /\ cn[c].found = "expired"

(* C36: a Consume that returns NotFound, the row absent or found expired,  *)
(* opens no blob and deletes none. For an expired external record it has   *)
(* removed the row and left the blob, which stays in place, without a row, *)
(* until Reconcile deletes it as an orphan.                                *)
C36_NotFoundLeavesBlob ==
    [][/\ \A c \in Consumers :
             IndexStep(c) =>
                LET id == cn[c].id
                    late == /\ id \in DOMAIN index
                            /\ index[id].expires_at # 0
                            /\ cn[c].now >= FromUnix(index[id].expires_at)
                IN  /\ (id \notin DOMAIN index \/ late)
                          => /\ cn'[c].err = "NotFound" /\ ret'.err = "NotFound"
                             /\ cn'[c].pc = "done"
                             /\ ret'.data = <<>>
                             /\ blobs' = blobs
                             /\ id \notin DOMAIN index'
                    /\ cn'[c].err = "NotFound" => (id \notin DOMAIN index \/ late)
       /\ \A c \in Consumers :
             (cn[c].err = "NotFound" /\ cn[c].pc = "done") => cn'[c] = cn[c]
       /\ \A id \in IDs :
             (LeftByExpiredConsume(id) /\ id \notin DOMAIN blobs')
                => (jn.pc = "recDel" /\ jn'.pending = jn.pending \ {id})]_vars

(* a Consume has returned NotFound for an expired external record: the row *)
(* is gone and the blob is in place                                        *)
C36_Witness ==
    /\ ret.op = "Consume" /\ ret.err = "NotFound"
    /\ LeftByExpiredConsume(ret.id)

(* Reconcile has returned after it removed the blob such a Consume left *)
C36_WitnessReconciled ==
    /\ ret.op = "Reconcile"
    /\ \E c \in Consumers, s \in Savers :
          /\ cn[c].found = "expired" /\ cn[c].id = sv[s].id
          /\ sv[s].pc = "done" /\ sv[s].err = "nil" /\ sv[s].external
          /\ cn[c].id \notin DOMAIN blobs


(* C37: every call of Stop returns in the end, whatever the Janitor's      *)
(* state when it is called: never started, running, its loop exited.       *)
C37_StopReturns ==
    (jan.stop = "waiting") ~> (jan.stop = "returned")

(* Stop on a Janitor that was started returns in the end *)
StopReturnsWhenStarted ==
    (jan.stop = "waiting" /\ jan.ticker) ~> (jan.stop = "returned")


-----------------------------------------------------------------------------
(* Janitor.Start called by two goroutines at once. Start takes no lock:    *)
(* the test of j.ticker and the assignment to it are separate steps, and   *)
(* the test races with the other caller's assignment, so it may still see  *)
(* nil after that assignment. Each launched loop is followed through its   *)
(* select, its cycles and its deferred close(j.doneCh).                    *)

JanStep(j) ==
    /\ jan' = j
    /\ ret' = NoRet
    /\ UNCHANGED <<clock, index, blobs, sv, cn, jn, minted, swept, call, mgr>>

TickerSeenNil(j) == {TRUE} \cup (IF j.ticker THEN {FALSE} ELSE {})

(* Start: if j.ticker != nil { return } *)
StartTest(g, nil) ==
    /\ jan.starter[g] = "idle"
    /\ nil \in TickerSeenNil(jan)
    /\ JanStep([jan EXCEPT !.starter[g] = IF nil THEN "launch" ELSE "done"])

(* Start: j.ticker = time.NewTicker(j.cfg.Interval); go j.loop(ctx) *)
StartLaunch(g) ==
    /\ jan.starter[g] = "launch"
    /\ JanStep([jan EXCEPT !.starter[g] = "done", !.ticker = TRUE,
                           !.tickers = @ + 1, !.loops = @ + 1, !.lp[g] = "select"])

(* loop: case <-j.ticker.C: runCycle begins *)
LoopRunCycle(g) ==
    /\ jan.lp[g] = "select"
    /\ jan.Cycles < MaxCycles
    /\ JanStep([jan EXCEPT !.lp[g] = "cycle"])

(* runCycle returns *)
LoopCycleDone(g) ==
    /\ jan.lp[g] = "cycle"
    /\ JanStep([jan EXCEPT !.lp[g] = "select", !.Cycles = @ + 1])

(* loop returns on ctx.Done or stopCh; the deferred close(j.doneCh) panics *)
(* when the channel is closed already                                      *)
LoopReturn(g) ==
    /\ jan.lp[g] = "select"
    /\ LoopExits(jan)
    /\ JanStep([jan EXCEPT !.lp[g] = IF jan.doneClosed THEN "panic" ELSE "exited",
                           !.doneClosed = TRUE])

NextStart ==
    \/ \E g \in Starters, nil \in BOOLEAN : StartTest(g, nil)
    \/ \E g \in Starters : StartLaunch(g)
    \/ \E g \in Starters : LoopRunCycle(g)
    \/ \E g \in Starters : LoopCycleDone(g)
    \/ \E g \in Starters : LoopReturn(g)
    \/ Cancel
    \/ StopSignal

SpecStart == Init /\ [][NextStart]_vars

(* C38: concurrent calls of Start launch one loop: one ticker is created,  *)
(* the done channel is closed once, and no two cycles run at a time.       *)
C38_ConcurrentStart ==
    /\ jan.loops <= 1
    /\ jan.tickers <= 1
    /\ \A g \in Starters : jan.lp[g] # "panic"
    /\ Cardinality({g \in Starters : jan.lp[g] = "cycle"}) <= 1


(* C39: no accepted metric is lost at shutdown. When Stop returns on a     *)
(* started Manager, no flush having failed, each counter's persisted value *)
(* is the sum of the deltas of the Inc calls that were accepted into the   *)
(* event buffer before Stop was called.                                    *)
C39_NoMetricLost ==
    [][(StopReturnStep /\ mgr.started /\ ~mgr'.flushFailed)
          => \A n \in CounterNames : mgr'.db.counters[n] = mgr'.accepted[n]]_vars

====
